---- MODULE Spec2Model ----
(***************************************************************************)
(* AgenticWorldGame: the agent memory and conversation-response subsystem. *)
(*                                                                         *)
(* The specifications share the variables of this module; each follows    *)
(* one part of the state and leaves the rest at its initial value:         *)
(*   Spec / FairSpec  the chat UI, the game engine's pause flag and the    *)
(*                    receiveMessage calls suspended on the external       *)
(*                    request (ChatInterface, GameEngine, Agent);          *)
(*   SpecEngine       one Response Engine call from start to end, with     *)
(*                    the reply it resolves to (World.js AIAgent);         *)
(*   SpecPersona      two runs of one persona fed the same messages, one   *)
(*                    answered by the external generator and one by the    *)
(*                    fallback path (Tiberius.js, Milo.js, Elara);         *)
(*   SpecPersonaSave  the personas and the round trip of their saved       *)
(*                    state (serialize / deserialize);                     *)
(*   SpecStore        one Memory Store (AgentMemory.js);                   *)
(*   SpecCapacity     one Memory Store of small capacity and its cleanup;  *)
(*   SpecLog          one Memory Store with a short conversation log;      *)
(*   SpecSave         one Memory Store saved to and loaded from the        *)
(*                    browser's storage (GamePersistence.js);              *)
(*   SpecExchange     one persona's exchanges with the player, on its      *)
(*                    Memory Store, in a game that is saved and loaded;    *)
(*   SpecQuery        the calls of one Memory Store, each recorded with    *)
(*                    the store before and after and what it returned;     *)
(*   SpecRelationship the player's Relationship Record over the            *)
(*                    conversations of a long session;                     *)
(*   SpecAnalysis     calculateMessageImportance and analyzeSentiment      *)
(*                    applied to composed messages;                        *)
(*   SpecFallback     the replies of a Response Engine that has no         *)
(*                    configuration (generateFallbackResponse);            *)
(*   SpecContext      one Response Engine's conversation window, the       *)
(*                    message list built from it, and its save and load;   *)
(*   SpecScripted     the scripted replies of Tiberius and Elara and the   *)
(*                    knowledge they mark as shared;                       *)
(*   SpecTiers        one Memory Store with a key held in one tier or in   *)
(*                    both, then stored, read, updated and cleaned;        *)
(*   SpecConversations  the conversation log queried with a limit.         *)
(* Strings are TLA+ strings; substring search, lower-casing and trimming   *)
(* are computed character by character.                                    *)
(***************************************************************************)
EXTENDS Integers, Sequences, FiniteSets, TLC

VARIABLES
    \* ---- AIAgent configuration (World.js) ----
    apiEndpoint,            \* agent -> JS value
    apiKey,                 \* agent -> JS value
    aiConfig,               \* window.__AI_CONFIG__ as env-config.js set it
    aiAgent,                \* one AIAgent: prompt, conversation window, tunables
    \* ---- ChatInterface ----
    isOpen,
    currentAgent,           \* agent or NoAgent
    isWaitingForResponse,
    messageHistory,         \* the transcript: sequence of [sender, senderName]
    \* ---- GameEngine ----
    isPaused,
    \* ---- Agent ----
    isInConversation,       \* agent -> BOOLEAN
    conversationLog,        \* agent -> sequence of "received"/"sent" (memory.conversations types)
    memoryUpdates,          \* number of AgentMemory.update calls each agent's memory has had
    \* ---- receiveMessage calls suspended on the external request ----
    inflight,               \* set of call records
    sentCount,              \* number of messages submitted so far
    \* ---- one Response Engine call followed from start to end (SpecEngine) ----
    call,                   \* the generateResponse call under way, or NoCall
    lastResult,             \* what the last completed generateResponse call resolved to
    \* ---- the personas, in two runs fed the same messages (SpecPersona) ----
    persona,                \* reply path -> state of the three personas
    exchange,               \* the last receiveMessage exchange, or NoExchange
    exchanges,              \* number of exchanges so far
    consoleCalls,           \* number of console adjustments so far
    personaTrip,            \* the last deserialize(serialize(persona)), or NoRoundTrip
    \* ---- one AgentMemory and the round trip of its snapshot (SpecStore) ----
    agentMemory,            \* the store
    roundTrip,              \* the last deserialize(serialize(store)), or NoRoundTrip
    memorySteps,            \* number of store operations so far
    retrievals,             \* number of retrieve calls so far
    \* ---- the saved game and the outcome of the last store call (SpecSave) ----
    storage,                \* the text under the save key, or NoSave
    storeError,             \* whether the last addConversation call threw
    \* ---- the last cleanup of a store of small capacity (SpecCapacity) ----
    lastCleanup,            \* the store before and after it, or NoCleanup
    \* ---- the last call of a store operation and what it returned (SpecQuery) ----
    lastCall                \* the call, the store before and after, or NoOperation

configVars == <<apiEndpoint, apiKey, aiConfig, aiAgent>>

chatVars == <<isOpen, currentAgent, isWaitingForResponse, messageHistory, isPaused,
              isInConversation, conversationLog, memoryUpdates, inflight, sentCount>>

engineVars == <<call, lastResult>>

personaVars == <<persona, exchange, exchanges, consoleCalls, personaTrip>>

saveVars == <<storage, storeError, lastCleanup, lastCall>>

storeVars == <<agentMemory, roundTrip, memorySteps, retrievals, saveVars>>

vars == <<configVars, chatVars, engineVars, personaVars, storeVars>>

-----------------------------------------------------------------------------
(* Bounds of the model *)

MaxCalls == 2
MaxTicks == 2

-----------------------------------------------------------------------------
(* JavaScript values and strings *)

JSNull == [t |-> "null"]
JSUndefined == [t |-> "undefined"]
JSObject == [t |-> "object"]
JSString(s) == [t |-> "string", v |-> s]

\* JS truthiness, as used by `a && b` and `x || default`
Truthy(x) ==
    CASE x.t = "string" -> x.v # ""
      [] x.t = "object" -> TRUE
      [] OTHER -> FALSE

UpperCase == <<"A","B","C","D","E","F","G","H","I","J","K","L","M",
               "N","O","P","Q","R","S","T","U","V","W","X","Y","Z">>
LowerCase == <<"a","b","c","d","e","f","g","h","i","j","k","l","m",
               "n","o","p","q","r","s","t","u","v","w","x","y","z">>

LowerChar(c) ==
    IF \E i \in 1..26 : UpperCase[i] = c
    THEN LowerCase[CHOOSE i \in 1..26 : UpperCase[i] = c]
    ELSE c

IsLetter(c) == \E i \in 1..26 : UpperCase[i] = c \/ LowerCase[i] = c

IsSpace(c) == c = " "

\* A string as the sequence of its characters
Chars(s) == [i \in 1..Len(s) |-> SubSeq(s, i, i)]

\* String.prototype.toLowerCase; the result is kept as a sequence of characters
ToLowerCase(s) == [i \in 1..Len(s) |-> LowerChar(SubSeq(s, i, i))]

\* String.prototype.includes, of a sequence of characters and a string
Includes(chars, k) ==
    \E i \in 1..(Len(chars) - Len(k) + 1) :
        \A j \in 1..Len(k) : chars[i + j - 1] = SubSeq(k, j, j)

RECURSIVE TrimStart(_)
TrimStart(s) ==
    IF s # "" /\ IsSpace(SubSeq(s, 1, 1)) THEN TrimStart(SubSeq(s, 2, Len(s))) ELSE s

RECURSIVE TrimEnd(_)
TrimEnd(s) ==
    IF s # "" /\ IsSpace(SubSeq(s, Len(s), Len(s)))
    THEN TrimEnd(SubSeq(s, 1, Len(s) - 1)) ELSE s

\* String.prototype.trim
Trim(s) == TrimEnd(TrimStart(s))

-----------------------------------------------------------------------------
(* The three personas and their Response Engines *)

Agents == {"tiberius", "elara", "milo"}
NoAgent == "none"

AgentName(a) ==
    CASE a = "tiberius" -> "Old Man Tiberius"
      [] a = "elara" -> "Elara the Merchant"
      [] a = "milo" -> "Milo the Inventor"

\* The personality bag each persona hands to its AIAgent
AIPersonality(a) ==
    CASE a = "tiberius" -> {"scholarly", "suspicious", "wise", "patient", "reclusive"}
      [] a = "elara" -> {"shrewd", "talkative", "business_minded", "gossipy", "friendly"}
      [] a = "milo" -> {"enthusiastic", "curious", "creative", "scattered", "optimistic"}

\* AIAgent.generateFallbackResponses
FallbackPool(a, category) ==
    CASE category = "greeting" ->
            {"Hello there! I'm " \o AgentName(a) \o ".",
             "Greetings, traveler.",
             "Well, hello! What brings you here?"}
      [] category = "confused" ->
            {"I'm not sure I understand what you mean.",
             "Could you rephrase that?",
             "That's an interesting way to put it...",
             "Hmm, I'm not quite following."}
      [] category = "goodbye" ->
            {"Farewell for now!",
             "Until we meet again.",
             "Safe travels!",
             "It was good talking with you."}
      [] category = "busy" ->
            {"I'm rather busy at the moment.",
             "Can we talk later? I have things to do.",
             "I'm in the middle of something important."}
      [] category = "default" ->
            {"That's interesting.",
             "I see.",
             "Tell me more about that.",
             "What do you think about that?"}
      [] OTHER -> {}

\* AIAgent.getRandomResponse: any member of the pool, or the fixed line
GetRandomResponse(a, category) ==
    IF FallbackPool(a, category) # {}
    THEN FallbackPool(a, category)
    ELSE {"I'm not sure how to respond to that."}

\* AIAgent.generatePersonalityResponse: the candidate replies
GeneratePersonalityResponse(a) ==
    LET traits == AIPersonality(a)
        responses ==
            (IF "scholarly" \in traits
             THEN {"That's a fascinating topic. In my studies, I've found...",
                   "From what I know about such matters...",
                   "An interesting question indeed."} ELSE {})
            \cup
            (IF "friendly" \in traits
             THEN {"I'm always happy to chat about that!",
                   "You seem like someone I can trust.",
                   "It's wonderful to have someone to talk to."} ELSE {})
            \cup
            (IF "suspicious" \in traits
             THEN {"Why do you want to know about that?",
                   "I'm not sure I should share that information.",
                   "That's a rather personal question..."} ELSE {})
            \cup
            (IF "helpful" \in traits
             THEN {"Let me see if I can help you with that.",
                   "I'd be glad to assist you.",
                   "Perhaps I can offer some advice."} ELSE {})
    IN IF responses = {} THEN FallbackPool(a, "default") ELSE responses

\* Every string the generic fallback path of an agent can return
FallbackStrings(a) ==
    UNION {GetRandomResponse(a, c) : c \in {"greeting", "goodbye", "confused", "busy"}}
    \cup GeneratePersonalityResponse(a)

(* ---- the texts and keywords of the model, searched once ---- *)

AIContents == {"", "  ", " Indeed. ", "Ah, so you've heard about Volume VII..."}

EngineMessages == {"", "Hi", "??", "tell me about gears"}

PlayerMessages ==
    {"Hi",
     "Please tell me about the missing book",
     "Tell me everything, what is the secret?",
     "I need to buy gear for a trade deal",
     "Can you explain how to build a machine?",
     "Can you help me with a problem?"}

WarmMessage ==
    "Thank you, I am happy, I love this wonderful news about your great and excellent invention"

ColdMessage == "I hate this awful, terrible, horrible, bad and sad secret"

Texts ==
    {text \in EngineMessages \cup PlayerMessages \cup {WarmMessage, ColdMessage}
              \cup {Trim(c) : c \in AIContents}
              \cup UNION {FallbackStrings(a) : a \in Agents} : TRUE}

PositiveWords == {"good", "great", "awesome", "wonderful", "excellent",
                  "love", "like", "happy", "pleased", "thank"}
NegativeWords == {"bad", "terrible", "awful", "horrible", "hate",
                  "dislike", "sad", "angry", "upset", "disappointed"}

\* AgentMemory.calculateMessageImportance
ImportantWords == {"secret", "important", "help", "problem", "quest", "treasure"}

\* AgentMemory.extractTopics
Topics == <<"history", "magic", "trade", "invention", "books", "weather", "people">>

TopicKeywords(topic) ==
    CASE topic = "history" -> {"history", "past", "ancient", "old", "before"}
      [] topic = "magic" -> {"magic", "spell", "enchant", "wizard", "mystical"}
      [] topic = "trade" -> {"trade", "sell", "buy", "merchant", "gold", "coin"}
      [] topic = "invention" -> {"invent", "create", "build", "machine", "gadget"}
      [] topic = "books" -> {"book", "read", "library", "tome", "scroll"}
      [] topic = "weather" -> {"weather", "rain", "sun", "storm", "cloud"}
      [] topic = "people" -> {"person", "people", "friend", "family", "stranger"}

Keywords ==
    {keyword \in
       PositiveWords \cup NegativeWords \cup ImportantWords
       \cup UNION {TopicKeywords(Topics[i]) : i \in DOMAIN Topics}
       \cup {"hello", "hi", "hey", "greetings", "good morning", "good day",
             "goodbye", "bye", "farewell", "see you", "later", "exit",
             "book", "history", "knowledge", "learn", "please", "thank", "respect",
             "tell me everything", "secret", "missing", "chronicle", "volume",
             "town", "library",
             "buy", "need", "looking for", "sell", "news", "gossip", "heard", "tell me",
             "deal", "trade", "business", "profit", "purchase", "inventory",
             "what do you have", "tiberius", "milo", "marcus", "elara",
             "invent", "machine", "build", "create", "parts", "gear", "spring", "wire",
             "problem", "difficult", "help", "how does", "how do", "explain",
             "invention", "material", "help me", "show", "demonstrate",
             "current", "working on"} : TRUE}

\* The pairs of a text of the model and a keyword its lower-cased characters
\* include
Found == {tk \in Texts \X Keywords : Includes(ToLowerCase(tk[1]), tk[2])}

\* message.toLowerCase().includes(k)
LowerIncludes(message, k) ==
    IF message \in Texts /\ k \in Keywords
    THEN <<message, k>> \in Found
    ELSE Includes(ToLowerCase(message), k)

\* messageLower.includes(w1) || messageLower.includes(w2) || ...
LowerIncludesAny(message, words) == \E w \in words : LowerIncludes(message, w)

\* AIAgent.isGreeting, of the lower-cased message
IsGreeting(message) ==
    LowerIncludesAny(message, {"hello", "hi", "hey", "greetings", "good morning", "good day"})

\* AIAgent.isGoodbye, of the lower-cased message
IsGoodbye(message) ==
    LowerIncludesAny(message, {"goodbye", "bye", "farewell", "see you", "later", "exit"})

\* AIAgent.isConfused: message.length < 3 || /^[^a-zA-Z]*$/.test(message)
IsConfused(message) ==
    LET m == ToLowerCase(message)
    IN Len(m) < 3 \/ \A i \in 1..Len(m) : ~IsLetter(m[i])

\* A mutant of GenerateFallbackResponse: goodbye is tried before greeting
GenerateFallbackResponseGoodbyeFirst(a, message) ==
    IF IsGoodbye(message) THEN GetRandomResponse(a, "goodbye")
    ELSE IF IsGreeting(message) THEN GetRandomResponse(a, "greeting")
    ELSE IF IsConfused(message) THEN GetRandomResponse(a, "confused")
    ELSE (IF "busy" \in AIPersonality(a) THEN GetRandomResponse(a, "busy") ELSE {})
         \cup GeneratePersonalityResponse(a)

\* AIAgent.generateFallbackResponse: the replies the random choices can give
GenerateFallbackResponse(a, message) ==
    IF IsGreeting(message) THEN GetRandomResponse(a, "greeting")
    ELSE IF IsGoodbye(message) THEN GetRandomResponse(a, "goodbye")
    ELSE IF IsConfused(message) THEN GetRandomResponse(a, "confused")
    ELSE (IF "busy" \in AIPersonality(a) THEN GetRandomResponse(a, "busy") ELSE {})
         \cup GeneratePersonalityResponse(a)

-----------------------------------------------------------------------------
(* The external generation call *)

\* What the network can do to the request, and what a 2xx body can hold
NetOutcomes == {"network_error", "http_500", "ok"}

Bodies ==
    {[kind |-> k, content |-> ""] :
        k \in {"bad_json", "no_choices", "empty_choices", "no_message"}}
    \cup {[kind |-> "content", content |-> c] : c \in AIContents}

Thrown(why) == [thrown |-> TRUE, text |-> why]
Returned(text) == [thrown |-> FALSE, text |-> text]

\* A mutant of FetchThrows: the `!response.ok` test is missing
FetchThrowsNoStatusCheck(net) == net = "network_error"

\* generateAIResponse once fetch has settled: a rejected fetch and a non-2xx
\* status throw; a 2xx response goes on to read its body
FetchThrows(net) == net = "network_error" \/ net # "ok"

\* generateAIResponse once the body has been read
GenerateAIResponse(body) ==
    CASE body.kind = "bad_json" -> Thrown("Unexpected token")
      [] body.kind = "no_choices" -> Thrown("No response from AI")
      [] body.kind = "empty_choices" -> Thrown("No response from AI")
      [] body.kind = "no_message" -> Thrown("Cannot read properties of undefined")
      [] OTHER -> Returned(Trim(body.content))

\* A mutant of Configured: only the endpoint is tested
ConfiguredEndpointOnly(a) == Truthy(apiEndpoint[a])

\* generateResponse: `this.apiEndpoint && this.apiKey`
Configured(a) == Truthy(apiEndpoint[a]) /\ Truthy(apiKey[a])

\* generateResponse's catch block: the replies it can resolve to
CatchReplies(a, message, why) == GenerateFallbackResponse(a, message)

\* generateResponse without configuration: the else branch
UnconfiguredReplies(a, message) == GenerateFallbackResponse(a, message)

\* Values the console snippet of showAISetupInstructions is given
ConsoleConfigs ==
    {<<JSString("http://localhost:11434/v1/chat/completions"), JSString("not-needed")>>,
     <<JSString("http://localhost:11434/v1/chat/completions"), JSString("")>>,
     <<JSString(""), JSString("not-needed")>>}

\* window.__AI_CONFIG__: not enabled, or enabled with an endpoint and a key
EnvironmentConfigs ==
    {[enabled |-> FALSE],
     [enabled |-> TRUE,
      apiEndpoint |-> JSString("http://localhost:11434/v1/chat/completions"),
      apiKey |-> JSString("not-needed")]}

\* The value a function's i-th parameter has in a call with the arguments
Parameter(arguments, i) == IF i <= Len(arguments) THEN arguments[i] ELSE JSUndefined

\* setAPIConfiguration(endpoint, apiKey, model): the endpoint and the key the
\* engine holds after the call
SetAPIConfigurationCall(arguments) == <<Parameter(arguments, 1), Parameter(arguments, 2)>>

\* applyEnvironmentAIConfig: the endpoint and the key every engine holds after
\* it. agentConfigs is one object and is the only argument of the call.
ApplyEnvironmentAIConfig(config) ==
    IF ~config.enabled \/ ~Truthy(config.apiEndpoint) THEN <<JSNull, JSNull>>
    ELSE SetAPIConfigurationCall(<<JSObject>>)

\* The configuration after initGame: applyEnvironmentAIConfig hands
\* setAPIConfiguration one object, so the endpoint holds that object and the
\* key is undefined; without an enabled environment both stay null
\* The first sentence of generateTiberiusPrompt / generateElaraPrompt /
\* generateMiloPrompt; the rest of each text is fixed as well
PersonaPrompt(a) ==
    CASE a = "tiberius" ->
            "You are Old Man Tiberius, a 70-year-old historian and librarian in a fantasy world."
      [] a = "elara" ->
            "You are Elara, a shrewd and charismatic merchant in a fantasy town square."
      [] a = "milo" ->
            "You are Milo, a 25-year-old enthusiastic inventor in a fantasy workshop."

\* new AIAgent({name, personality, systemPrompt}), as the persona's
\* constructor calls it; temperature in tenths
NewAIAgent(a) ==
    [name |-> AgentName(a),
     personality |-> AIPersonality(a),
     systemPrompt |-> PersonaPrompt(a),
     conversationHistory |-> <<>>,
     responseStyle |-> "conversational",
     temperature |-> 7,
     maxTokens |-> 150]

InitEnvironment ==
    \E config \in EnvironmentConfigs :
        /\ aiConfig = config
        /\ apiEndpoint = [a \in Agents |-> ApplyEnvironmentAIConfig(config)[1]]
        /\ apiKey = [a \in Agents |-> ApplyEnvironmentAIConfig(config)[2]]

InitConfig ==
    /\ InitEnvironment
    /\ aiAgent = NewAIAgent("tiberius")

\* aiAgent.setAPIConfiguration(endpoint, apiKey, model) on every agent
SetAPIConfiguration ==
    /\ \E cfg \in ConsoleConfigs :
        /\ apiEndpoint' = [a \in Agents |-> SetAPIConfigurationCall(cfg)[1]]
        /\ apiKey' = [a \in Agents |-> SetAPIConfigurationCall(cfg)[2]]
    /\ UNCHANGED <<storeVars, personaVars, chatVars, engineVars, aiConfig, aiAgent>>

-----------------------------------------------------------------------------
(* The personas: Tiberius.js, Milo.js, Elara *)

MaxExchanges == 1
MaxConsoleCalls == 1
PriorExchanges == 13
MaxMemorySteps == 2
MaxRetrievals == 4

trustThreshold == 70
maxConversations == 50
maxSentimentHistory == 20

\* Math.min, Math.max
Min(x, y) == IF x < y THEN x ELSE y
Max(x, y) == IF x > y THEN x ELSE y

Digits == <<"0", "1", "2", "3", "4", "5", "6", "7", "8", "9">>

\* Number -> string, as a template literal formats a non-negative integer
RECURSIVE NumberToString(_)
NumberToString(n) ==
    IF n < 10 THEN Digits[n + 1] ELSE NumberToString(n \div 10) \o Digits[(n % 10) + 1]

\* String.prototype.replace(from, to) with a string pattern: first match only
RECURSIVE ReplaceFirst(_, _, _)
ReplaceFirst(s, from, to) ==
    IF Len(s) < Len(from) THEN s
    ELSE IF SubSeq(s, 1, Len(from)) = from
         THEN to \o SubSeq(s, Len(from) + 1, Len(s))
         ELSE SubSeq(s, 1, 1) \o ReplaceFirst(SubSeq(s, 2, Len(s)), from, to)

(* ---- AgentMemory, as far as the personas read it ---- *)

\* AgentMemory.analyzeSentiment, in tenths: +-0.1 per listed word, within [-1, 1]
AnalyzeSentiment(message) ==
    LET sentiment == Cardinality({w \in PositiveWords : LowerIncludes(message, w)})
                     - Cardinality({w \in NegativeWords : LowerIncludes(message, w)})
    IN Max(-10, Min(10, sentiment))

RECURSIVE SumOf(_)
SumOf(seq) == IF seq = <<>> THEN 0 ELSE Head(seq) + SumOf(Tail(seq))

NoRelationship == [known |-> FALSE]

\* A mutant of UpdateRelationship: a new record starts at one interaction
\* before the call is counted
UpdateRelationshipCountsTwice(relationship, sentiment) ==
    [known |-> TRUE, trustLevel |-> 50, familiarity |-> 1,
     totalInteractions |-> IF relationship.known THEN relationship.totalInteractions + 1
                           ELSE 2,
     sentimentHistory |-> <<sentiment>>]

\* AgentMemory.updateRelationship. The average of the sentiment history is
\* compared with +-0.2: in tenths, sum > 2 * length and sum < -2 * length.
UpdateRelationshipOnLastScore(relationship, sentiment) ==
    LET r == IF relationship.known THEN relationship
             ELSE [known |-> TRUE, trustLevel |-> 50, familiarity |-> 0,
                   totalInteractions |-> 0, sentimentHistory |-> <<>>]
        pushed == Append(r.sentimentHistory, sentiment)
        history == IF Len(pushed) > maxSentimentHistory THEN Tail(pushed) ELSE pushed
        trust == IF sentiment > 2 THEN Min(100, r.trustLevel + 2)
                 ELSE IF sentiment < -2 THEN Max(0, r.trustLevel - 2)
                 ELSE r.trustLevel
    IN [known |-> TRUE,
        trustLevel |-> trust,
        familiarity |-> Min(100, r.familiarity + 1),
        totalInteractions |-> r.totalInteractions + 1,
        sentimentHistory |-> history]

UpdateRelationship(relationship, sentiment) ==
    LET r == IF relationship.known THEN relationship
             ELSE [known |-> TRUE, trustLevel |-> 50, familiarity |-> 0,
                   totalInteractions |-> 0, sentimentHistory |-> <<>>]
        pushed == Append(r.sentimentHistory, sentiment)
        history == IF Len(pushed) > maxSentimentHistory THEN Tail(pushed) ELSE pushed
        trust == IF SumOf(history) > 2 * Len(history) THEN Min(100, r.trustLevel + 2)
                 ELSE IF SumOf(history) < -2 * Len(history) THEN Max(0, r.trustLevel - 2)
                 ELSE r.trustLevel
    IN [known |-> TRUE,
        trustLevel |-> trust,
        familiarity |-> Min(100, r.familiarity + 1),
        totalInteractions |-> r.totalInteractions + 1,
        sentimentHistory |-> history]

\* A persona's memory: the length of its conversation log (every entry is the
\* player's) and the player's relationship record
NewMemory == [conversations |-> 0, relationship |-> NoRelationship]

\* AgentMemory.addConversation
AddConversation(memory, message) ==
    [conversations |-> Min(maxConversations, memory.conversations + 1),
     relationship |-> UpdateRelationship(memory.relationship, AnalyzeSentiment(message))]

\* AgentMemory.getConversationsWith(name).length, limit = 10
GetConversationsWith(memory) == Min(memory.conversations, 10)

(* ---- configuration of the personas ---- *)

Greetings(a) ==
    CASE a = "tiberius" ->
           {"Ah, a visitor... it's been some time since anyone has sought out my company.",
            "Welcome to my humble library. What knowledge do you seek?",
            "Not many venture this deep into the archives. You must be after something specific.",
            "Another soul drawn to the whispers of ancient knowledge, I presume?"}
      [] a = "elara" ->
           {"Well, well! A new face in town! Looking to make a deal, perhaps?",
            "Welcome to the finest trading post this side of the realm!",
            "Ah, a potential customer! What can Elara do for you today?",
            "Step right up! I've got exactly what you're looking for!"}
      [] a = "milo" ->
           {"Oh! A visitor! Perfect timing - I was just working on something amazing!",
            "Welcome to my workshop! Mind the gears, and watch out for that spring mechanism!",
            "Fantastic! Another person to show my inventions to! What do you think of this contraption?",
            "Hello there! You look like someone who appreciates fine craftsmanship!"}

TiberiusKnowledge(key) ==
    CASE key = "library_history" ->
            "This library was founded 300 years ago by the scholar Aldric the Wise. It contains the most comprehensive collection of historical texts in the realm."
      [] key = "missing_book" ->
            "Volume VII of the Chronicles has been missing for 20 years. It contains crucial information about the founding of our town and some... sensitive matters."
      [] key = "ancient_magic" ->
            "The old magics are not what they used to be. Most practitioners today barely understand the fundamentals."
      [] key = "town_history" ->
            "This town was built on the ruins of an older settlement. There are still mysteries buried beneath our feet."
      [] key = "aldric_the_wise" ->
            "The founder of this library. A brilliant scholar who disappeared mysteriously 250 years ago, leaving behind only his books and a cryptic note."
      [] key = "other_residents" ->
            "Elara is a shrewd merchant, but honest in her dealings. Milo is a talented inventor, though sometimes his enthusiasm gets the better of him."

ElaraKnowledge(key) ==
    CASE key = "trade_routes" ->
            "I know all the best trade routes! The eastern pass is fastest for spices, but the northern route is safer for precious goods."
      [] key = "local_gossip" ->
            "Oh, the stories I could tell! Did you know that Marcus tried to undercut my prices last week? The nerve!"
      [] key = "town_economics" ->
            "Business has been good lately. The harvest was excellent, and the miners found a new silver vein up north."
      [] key = "rival_marcus" ->
            "Marcus thinks he's so clever with his 'premium' goods. Ha! I offer better quality at fair prices."
      [] key = "inventory" ->
            "I deal in fine silks, rare spices, quality tools, and the occasional magical trinket. Always something interesting!"
      [] key = "tiberius" ->
            "Old Tiberius? Lovely man, but so serious! He once bought a rare manuscript from me - paid quite handsomely too."
      [] key = "milo" ->
            "That inventor boy is always asking for strange parts. Good for business though - he pays well for hard-to-find items."

MiloKnowledge(key) ==
    CASE key = "current_project" ->
            "I'm working on an Automatic Seed Planter! It'll revolutionize farming! I just need a few more precision springs and maybe some enchanted copper wire."
      [] key = "workshop" ->
            "This workshop has been in my family for three generations. My grandfather was a clockmaker, my father a blacksmith, and I... well, I'm trying to combine both!"
      [] key = "inventions" ->
            "I've created a self-stirring pot, boots that never get muddy, and a hat that tells you the weather! Not all of them work perfectly yet..."
      [] key = "parts_needed" ->
            "I'm always looking for gears, springs, crystals, rare metals, and anything that moves or glows! Elara sometimes finds interesting components for me."
      [] key = "failures" ->
            "Oh, I've had spectacular failures! Last month, my automatic door opener launched itself through the wall. But that's how we learn, right?"
      [] key = "tiberius" ->
            "Old Tiberius is brilliant! He let me borrow some technical manuals. Ancient engineering is fascinating - they knew things we've forgotten!"
      [] key = "elara" ->
            "Elara's great for finding rare parts! She charges fair prices, though she does laugh at some of my more... ambitious projects."

Inventory ==
    <<[item |-> "Silk Scarf", price |-> 25], [item |-> "Exotic Spices", price |-> 50],
      [item |-> "Quality Hammer", price |-> 75], [item |-> "Lucky Charm", price |-> 100],
      [item |-> "Ancient Coin", price |-> 200]>>

\* The state of the three personas after construction
InitialPersona ==
    [trustLevel |-> [a \in Agents |->
                        CASE a = "tiberius" -> 50 [] a = "elara" -> 60 [] a = "milo" -> 70],
     questProgress |-> [missing_book_clues |-> 0, player_trustworthiness |-> 0,
                        sensitive_info_revealed |-> FALSE],
     knowledgeShared |-> {},
     businessRelationship |-> "potential_customer",
     gossipShared |-> {},
     salesPitch |-> 0,
     excitementLevel |-> 50,
     demonstrationCount |-> 0,
     inventionProgress |-> [seed_planter |-> 60, weather_hat |-> 85,
                            mud_proof_boots |-> 40, self_stirring_pot |-> 90],
     partsNeeded |-> <<[name |-> "Precision Spring", urgency |-> "high", project |-> "seed_planter"],
                       [name |-> "Enchanted Copper Wire", urgency |-> "medium", project |-> "seed_planter"],
                       [name |-> "Weather Crystal", urgency |-> "low", project |-> "weather_hat"],
                       [name |-> "Lightweight Gear", urgency |-> "medium", project |-> "mud_proof_boots"]>>,
     memory |-> [a \in Agents |-> NewMemory]]

\* A mutant of AdjustTrust: the clamp is missing
AdjustTrustUnclamped(trustLevel, amount) == trustLevel + amount

\* adjustTrust of the three personas
AdjustTrust(trustLevel, amount) == Max(0, Min(100, trustLevel + amount))

\* isFirstInteraction
IsFirstInteraction(p, a) == GetConversationsWith(p.memory[a]) <= 1

\* a scripted handler's outcome: the reply and the persona's state after it
Say(p, replies) == {[reply |-> r, p |-> p] : r \in replies}

(* ---- Tiberius ---- *)

AnalyzePlayerMessage(p, message) ==
    LET p1 == IF LowerIncludesAny(message, {"book", "history", "knowledge", "learn"})
              THEN [p EXCEPT !.trustLevel["tiberius"] = AdjustTrust(@, 5),
                             !.questProgress.player_trustworthiness = @ + 1]
              ELSE p
        p2 == IF LowerIncludesAny(message, {"please", "thank", "respect"})
              THEN [p1 EXCEPT !.trustLevel["tiberius"] = AdjustTrust(@, 3)]
              ELSE p1
        p3 == IF \/ LowerIncludes(message, "tell me everything")
                 \/ (/\ LowerIncludes(message, "secret")
                     /\ p2.trustLevel["tiberius"] < trustThreshold)
              THEN [p2 EXCEPT !.trustLevel["tiberius"] = AdjustTrust(@, -5)]
              ELSE p2
    IN IF LowerIncludesAny(message, {"missing", "chronicle", "volume"})
       THEN [p3 EXCEPT !.questProgress.missing_book_clues = @ + 1]
       ELSE p3

HandleKnowledgeRequest(p, message) ==
    IF p.trustLevel["tiberius"] < 50
    THEN Say(p, {"Knowledge is precious, young one. It must be earned through patience and respect. What draws you to seek such wisdom?"})
    ELSE IF LowerIncludes(message, "town") /\ "town_history" \notin p.knowledgeShared
    THEN Say([p EXCEPT !.knowledgeShared = @ \cup {"town_history"}],
             {"Ah, the history of our town is fascinating indeed. "
                \o TiberiusKnowledge("town_history")})
    ELSE IF LowerIncludes(message, "library") /\ "library_history" \notin p.knowledgeShared
    THEN Say([p EXCEPT !.knowledgeShared = @ \cup {"library_history"}],
             {"This library holds many secrets. " \o TiberiusKnowledge("library_history")})
    ELSE Say(p, {"There is much to learn, but one must ask the right questions. What specific knowledge do you seek?"})

\* A mutant of HandleMissingBookInquiry: the topic is not marked as shared
HandleMissingBookInquiryUnmarked(p) ==
    IF p.trustLevel["tiberius"] < trustThreshold
    THEN Say(p, {"Missing? I'm not sure what you're referring to. This library is quite comprehensive..."})
    ELSE Say(p, {"Ah, so you've heard about Volume VII... " \o TiberiusKnowledge("missing_book")
                   \o " Perhaps you could help me locate it?"})

HandleMissingBookInquiry(p) ==
    IF p.trustLevel["tiberius"] < trustThreshold
    THEN Say(p, {"Missing? I'm not sure what you're referring to. This library is quite comprehensive..."})
    ELSE IF "missing_book" \notin p.knowledgeShared
    THEN Say([p EXCEPT !.knowledgeShared = @ \cup {"missing_book"}],
             {"Ah, so you've heard about Volume VII... " \o TiberiusKnowledge("missing_book")
                \o " Perhaps you could help me locate it?"})
    ELSE Say(p, {"As I mentioned, Volume VII has been missing for two decades. Any leads would be most appreciated."})

GetSuspiciousResponse ==
    {"I don't know you well enough to discuss such matters.",
     "Patience, young one. Trust is earned, not given freely.",
     "You seem... eager. Perhaps too eager. What are your true intentions?",
     "The knowledge in these halls is not for everyone. Prove your worth first."}

GetHelpfulResponse ==
    {"Ah, a worthy question! Let me share what I know...",
     "Indeed, that's a matter I've studied extensively.",
     "You show genuine curiosity. I believe I can help you with that.",
     "Your patience has been noted. Allow me to elaborate..."}

GetCautiousResponse ==
    {"Interesting... tell me more about why you wish to know this.",
     "Perhaps. First, tell me about your own background.",
     "I might have some information, but I need to understand your motivations.",
     "Knowledge is powerful. How do you intend to use what you learn?"}

\* Tiberius.generateScriptedResponse
TiberiusScriptedResponse(p, message) ==
    IF IsFirstInteraction(p, "tiberius") THEN Say(p, Greetings("tiberius"))
       ELSE IF LowerIncludesAny(message, {"book", "history"})
       THEN HandleKnowledgeRequest(p, message)
       ELSE IF LowerIncludesAny(message, {"missing", "chronicle"})
       THEN HandleMissingBookInquiry(p)
       ELSE IF p.trustLevel["tiberius"] < 30 THEN Say(p, GetSuspiciousResponse)
       ELSE IF p.trustLevel["tiberius"] > trustThreshold THEN Say(p, GetHelpfulResponse)
       ELSE Say(p, GetCautiousResponse)

\* Tiberius.updateQuestProgress: the flag follows the text of the reply
UpdateQuestProgress(p, playerMessage, myResponse) ==
    IF Includes(Chars(myResponse), "Volume VII") /\ ~p.questProgress.sensitive_info_revealed
    THEN [p EXCEPT !.questProgress.sensitive_info_revealed = TRUE]
    ELSE p

(* ---- Elara ---- *)

AnalyzeBusinessOpportunity(p, message) ==
    LET p1 == IF LowerIncludesAny(message, {"buy", "need", "looking for", "sell"})
              THEN [p EXCEPT !.salesPitch = @ + 1]
              ELSE p
        p2 == IF LowerIncludesAny(message, {"news", "gossip", "heard", "tell me"})
              THEN [p1 EXCEPT !.trustLevel["elara"] = AdjustTrust(@, 3)]
              ELSE p1
    IN IF LowerIncludesAny(message, {"deal", "trade", "business", "profit"})
       THEN [p2 EXCEPT !.trustLevel["elara"] = AdjustTrust(@, 5)]
       ELSE p2

UpdateBusinessRelationship(p) ==
    LET interactionCount == GetConversationsWith(p.memory["elara"])
    IN IF interactionCount >= 5 /\ p.businessRelationship = "potential_customer"
       THEN [p EXCEPT !.businessRelationship = "regular"]
       ELSE IF interactionCount >= 10 /\ p.businessRelationship = "regular"
       THEN [p EXCEPT !.businessRelationship = "valued_customer"]
       ELSE IF p.trustLevel["elara"] > 80 /\ p.businessRelationship = "valued_customer"
       THEN [p EXCEPT !.businessRelationship = "partner"]
       ELSE p

HandlePurchaseInquiry(p) ==
    IF p.salesPitch < 2
    THEN Say(p, {"Excellent! You've come to the right place. I have the finest goods at the most reasonable prices. What kind of item are you looking for?"})
    ELSE Say(p, {"I've got just the thing! How about this " \o Inventory[i].item \o " for "
                   \o NumberToString(Inventory[i].price) \o " gold? It's a steal at that price!" :
                 i \in DOMAIN Inventory})

HandleInventoryInquiry(p) ==
    LET entry(i) == Inventory[i].item \o " (" \o NumberToString(Inventory[i].price) \o "g)"
        itemList == entry(1) \o ", " \o entry(2) \o ", " \o entry(3)
    IN Say(p, {"Today I have " \o itemList \o ", and much more! I can also source special items if you have something specific in mind. What catches your interest?"})

ShareGossip(p) ==
    UNION {IF randomTopic \notin p.gossipShared
           THEN Say([p EXCEPT !.gossipShared = @ \cup {randomTopic}],
                    {"Oh, do I have news for you! " \o ElaraKnowledge(randomTopic)})
           ELSE Say(p, {"Well, I've already shared the juiciest gossip with you! But I'm always hearing new things. Come back later!"}) :
           randomTopic \in {"local_gossip", "rival_marcus", "town_economics"}}

ElaraHandlePersonInquiry(p, message) ==
    IF LowerIncludes(message, "tiberius")
    THEN Say(p, {ElaraKnowledge("tiberius") \o " Do you know him well?"})
    ELSE IF LowerIncludes(message, "milo")
    THEN Say(p, {ElaraKnowledge("milo") \o " Are you looking for some invention perhaps?"})
    ELSE IF LowerIncludes(message, "marcus")
    THEN Say(p, {ElaraKnowledge("rival_marcus")
                   \o " You're not thinking of shopping with him, are you?"})
    ELSE Say(p, {"Ah, asking about the locals? I know everyone in town! Who specifically interests you?"})

GetBusinessResponse ==
    {"Business is always on my mind! Is there something I can help you with?",
     "Every conversation is an opportunity! What brings you to my shop today?",
     "I love meeting new people - especially potential customers! What do you need?",
     "You know, I might have exactly what you're looking for. Tell me more!"}

\* Elara.generateScriptedResponse
ElaraScriptedResponse(p, message) ==
    IF IsFirstInteraction(p, "elara") THEN Say(p, Greetings("elara"))
       ELSE IF LowerIncludesAny(message, {"buy", "purchase"}) THEN HandlePurchaseInquiry(p)
       ELSE IF LowerIncludesAny(message, {"inventory", "what do you have"})
       THEN HandleInventoryInquiry(p)
       ELSE IF LowerIncludesAny(message, {"news", "gossip"}) THEN ShareGossip(p)
       ELSE IF LowerIncludesAny(message, {"tiberius", "milo", "marcus"})
       THEN ElaraHandlePersonInquiry(p, message)
       ELSE Say(p, GetBusinessResponse)

(* ---- Milo ---- *)

AnalyzeInventionInterest(p, message) ==
    LET p1 == IF LowerIncludesAny(message, {"invent", "machine", "build", "create"})
              THEN [p EXCEPT !.excitementLevel = Min(100, @ + 15),
                             !.trustLevel["milo"] = AdjustTrust(@, 5)]
              ELSE p
        p2 == IF LowerIncludesAny(message, {"parts", "gear", "spring", "wire"})
              THEN [p1 EXCEPT !.excitementLevel = Min(100, @ + 10)]
              ELSE p1
        p3 == IF LowerIncludesAny(message, {"problem", "need", "difficult", "help"})
              THEN [p2 EXCEPT !.excitementLevel = Min(100, @ + 8)]
              ELSE p2
    IN IF LowerIncludesAny(message, {"how does", "how do", "explain"})
       THEN [p3 EXCEPT !.excitementLevel = Min(100, @ + 12)]
       ELSE p3

UpdateExcitement(p, message) ==
    [p EXCEPT !.excitementLevel = Max(30, @ - 2)]

HandleInventionInquiry(p, message) ==
    IF LowerIncludesAny(message, {"current", "working on"})
    THEN Say(p, {"Oh! I'm so glad you asked! Right now I'm "
                   \o NumberToString(p.inventionProgress[randomProject]) \o "% done with my "
                   \o ReplaceFirst(randomProject, "_", " ") \o "! "
                   \o MiloKnowledge("current_project") :
                 randomProject \in DOMAIN p.inventionProgress})
    ELSE Say(p, {"I have so many projects! " \o MiloKnowledge("inventions")
                   \o " Would you like to see one of them work?"})

\* partsNeeded.find(p => p.urgency === 'high'), else a random part; with no
\* part left `randomPart.name` throws and no reply is returned
HandlePartsInquiry(p) ==
    LET urgent == {i \in DOMAIN p.partsNeeded : p.partsNeeded[i].urgency = "high"}
        first == CHOOSE i \in urgent : \A j \in urgent : i <= j
    IN IF urgent # {}
       THEN Say(p, {"Oh, you're interested in parts? That's fantastic! I desperately need a "
                      \o p.partsNeeded[first].name \o " for my "
                      \o ReplaceFirst(p.partsNeeded[first].project, "_", " ")
                      \o ". Do you happen to know where I could find one?"})
       ELSE Say(p, {"I'm always looking for interesting components! Right now I could really use "
                      \o p.partsNeeded[i].name \o ". " \o MiloKnowledge("parts_needed") :
                    i \in DOMAIN p.partsNeeded})

HandleProblemSolving(p) ==
    Say([p EXCEPT !.excitementLevel = Min(100, @ + 20)],
        {"A problem? Oh, I LOVE solving problems! That's what invention is all about! Tell me more - what kind of challenge are you facing? I bet we can build something to fix it!"})

HandleDemonstration(p) ==
    Say([p EXCEPT !.demonstrationCount = @ + 1],
        {"Watch this! *fiddles with a contraption* My self-stirring pot! It stirs soup automatically! ...though sometimes it stirs a bit too vigorously.",
         "Here, let me show you my weather hat! *puts on a hat with crystals* It's supposed to glow blue for rain... *it glows purple* Hmm, that's new.",
         "Look at these mud-proof boots! *demonstrates* The coating repels all dirt! Well, most dirt. Some dirt. It's a work in progress!",
         "This is my automatic door mechanism! *pulls a lever* It should... *CRASH* ...well, it opens doors. Very enthusiastically."})

MiloHandlePersonInquiry(p, message) ==
    IF LowerIncludes(message, "tiberius")
    THEN Say(p, {MiloKnowledge("tiberius")
                   \o " Have you seen any ancient engineering texts in his library?"})
    ELSE IF LowerIncludes(message, "elara")
    THEN Say(p, {MiloKnowledge("elara") \o " She might have some of the parts I need!"})
    ELSE Say(p, {"Oh, are you asking about the other folks in town? They're all great! Everyone here has their own interesting skills!"})

GetEnthusiasticResponse ==
    {"That's interesting! You know, I bet I could invent something for that!",
     "Fascinating! How do you think that works? I love understanding mechanisms!",
     "Oh! That reminds me of a project I've been thinking about! Want to hear about it?",
     "You seem like someone who appreciates good craftsmanship! Let me show you something!"}

\* Milo.generateScriptedResponse
MiloScriptedResponse(p, message) ==
    IF IsFirstInteraction(p, "milo") THEN Say(p, Greetings("milo"))
       ELSE IF LowerIncludesAny(message, {"invention", "machine"})
       THEN HandleInventionInquiry(p, message)
       ELSE IF LowerIncludesAny(message, {"parts", "need", "material"})
       THEN HandlePartsInquiry(p)
       ELSE IF LowerIncludesAny(message, {"problem", "help me"}) THEN HandleProblemSolving(p)
       ELSE IF LowerIncludesAny(message, {"show", "demonstrate"}) THEN HandleDemonstration(p)
       ELSE IF LowerIncludesAny(message, {"tiberius", "elara"})
       THEN MiloHandlePersonInquiry(p, message)
       ELSE Say(p, GetEnthusiasticResponse)

\* Milo.updateInventionProgress
UpdateInventionProgress(p, projectName, amount) ==
    IF projectName \in DOMAIN p.inventionProgress
    THEN [p EXCEPT !.inventionProgress[projectName] = Min(100, @ + amount)]
    ELSE p

(* ---- receiveMessage of the three personas ---- *)

GenerateScriptedResponse(p, a, message) ==
    CASE a = "tiberius" -> TiberiusScriptedResponse(p, message)
      [] a = "elara" -> ElaraScriptedResponse(p, message)
      [] a = "milo" -> MiloScriptedResponse(p, message)

\* A mutant of ReceiveMessageStart: the agents share one Memory Store
ReceiveMessageStartSharedStore(p, a, message) ==
    [p EXCEPT !.memory = [b \in Agents |-> AddConversation(p.memory[b], message)]]

\* receiveMessage up to the call of aiAgent.generateResponse
ReceiveMessageStart(p, a, message) ==
    LET stored == [p EXCEPT !.memory[a] = AddConversation(@, message)]
    IN CASE a = "tiberius" -> AnalyzePlayerMessage(stored, message)
         [] a = "elara" ->
              UpdateBusinessRelationship(AnalyzeBusinessOpportunity(stored, message))
         [] a = "milo" ->
              UpdateExcitement(AnalyzeInventionInterest(stored, message), message)

\* receiveMessage from the reply on
ReceiveMessageEnd(p, a, message, response) ==
    LET stored == [p EXCEPT !.memory[a] = AddConversation(@, response)]
    IN IF a = "tiberius" THEN UpdateQuestProgress(stored, message, response) ELSE stored

Paths == {"external", "fallback"}

\* A mutant of GenerateResponseSettles: generateResponse has no catch block and
\* hands the failure to its caller
GenerateResponseRethrows(path, a, message) ==
    IF path = "external"
    THEN {GenerateAIResponse(body) : body \in {b \in Bodies : b.kind = "content"}}
    ELSE {Thrown("AI response failed")}

\* What the promise of aiAgent.generateResponse settles to. On the external
\* path the generator answers; on the fallback path the engine is not
\* configured or its request fails, and generateResponse itself answers from
\* the generic pools: it never rejects.
GenerateResponseSettles(path, a, message) ==
    IF path = "external"
    THEN {GenerateAIResponse(body) : body \in {b \in Bodies : b.kind = "content"}}
    ELSE {Returned(reply) :
            reply \in UnconfiguredReplies(a, message) \cup CatchReplies(a, message, "failed")}

\* One receiveMessage call from start to end: the replies it can return, each
\* with the persona's state after it. The catch block of receiveMessage is the
\* only caller of generateScriptedResponse.
Exchange(p, a, message, settled) ==
    UNION {{[reply |-> x.reply, p |-> ReceiveMessageEnd(x.p, a, message, x.reply)] :
              x \in IF settled.thrown
                     THEN GenerateScriptedResponse(analysed, a, message)
                     ELSE Say(analysed, {settled.text})} :
           analysed \in {ReceiveMessageStart(p, a, message)}}

NoExchange == [agent |-> NoAgent]

\* The personas as constructed: no message has been exchanged
InitPersonaIdle ==
    /\ persona = [path \in Paths |-> InitialPersona]
    /\ exchange = NoExchange
    /\ exchanges = 0
    /\ consoleCalls = 0
    /\ personaTrip = [done |-> FALSE]

-----------------------------------------------------------------------------
(* AgentMemory as a whole: its maps, its operations and its snapshot *)

(* ---- a JS Map: its keys in insertion order and the value of each key ---- *)

EmptyMap == [keys |-> <<>>, get |-> <<>>]

\* map.has(key)
MapHas(map, key) == key \in DOMAIN map.get

\* map.set(key, value): a known key keeps its place
MapSet(map, key, value) ==
    IF MapHas(map, key)
    THEN [keys |-> map.keys, get |-> [map.get EXCEPT ![key] = value]]
    ELSE [keys |-> Append(map.keys, key),
          get |-> [k \in DOMAIN map.get \cup {key} |->
                     IF k = key THEN value ELSE map.get[k]]]

\* map.delete(key)
MapDelete(map, key) ==
    [keys |-> SelectSeq(map.keys, LAMBDA k : k # key),
     get |-> [k \in DOMAIN map.get \ {key} |-> map.get[k]]]

\* Array.from(map.entries())
ArrayFromEntries(map) ==
    [i \in 1..Len(map.keys) |-> <<map.keys[i], map.get[map.keys[i]]>>]

\* new Map(entries)
RECURSIVE NewMap(_)
NewMap(entries) ==
    IF Len(entries) = 0 THEN EmptyMap
    ELSE CHOOSE map \in
             {MapSet(front, entries[Len(entries)][1], entries[Len(entries)][2]) :
                front \in {NewMap(SubSeq(entries, 1, Len(entries) - 1))}} : TRUE

(* ---- a JS Set, and the plain object JSON text makes of one ---- *)

\* new Set()
NewSet == [t |-> "Set", elems |-> {}]

\* whether the value is a Set, so that value.add is a function
IsSet(value) == value.t = "Set"

\* topics.forEach(topic => set.add(topic))
SetAddAll(set, topics) == [set EXCEPT !.elems = @ \cup {topics[i] : i \in DOMAIN topics}]

(* ---- AgentMemory ---- *)

ImportanceTrivial == 1
ImportanceLow == 2
ImportanceNormal == 3
ImportanceHigh == 4
ImportanceCritical == 5
maxMemories == 200
\* decayRate 0.1 per minute, in hundredths of strength
decayRate == 10

\* Time is counted in units of 30 seconds; `now` is what Date.now() returns
\* to the store
TicksPerMinute == 2
\* 7 * 24 * 60 * 60 * 1000 ms
Week == 7 * 24 * 60 * TicksPerMinute

\* new AgentMemory(config): `config.x || default`
NewStoreWith(config) ==
    [shortTermMemory |-> EmptyMap,
     longTermMemory |-> EmptyMap,
     conversations |-> <<>>,
     relationships |-> EmptyMap,
     facts |-> EmptyMap,
     maxMemories |-> IF config.maxMemories # 0 THEN config.maxMemories ELSE maxMemories,
     maxConversations |-> IF config.maxConversations # 0 THEN config.maxConversations
                          ELSE maxConversations,
     decayRate |-> decayRate,
     now |-> 0]

\* new AgentMemory()
NewStore == NewStoreWith([maxMemories |-> 0, maxConversations |-> 0])

\* AgentMemory.calculateMemoryScore at the time now, times 10 * Week * 100:
\* importance * strength * (recency + accessBonus)
CalculateMemoryScore(memory, now) ==
    memory.importance * memory.strength
    * (10 * Max(0, Week - (now - memory.timestamp)) + Week * Min(10, memory.accessCount))

\* A mutant of SortedBefore: the sort is descending
SortedBeforeDescending(map, key, now) ==
    {other \in DOMAIN map.get :
       CalculateMemoryScore(map.get[other], now) > CalculateMemoryScore(map.get[key], now)}

\* The keys of the short-term map that the ascending sort by score puts
\* before the key: a lower score, or the same score and an earlier entry
SortedBefore(map, key, now) ==
    {other \in DOMAIN map.get :
       \/ CalculateMemoryScore(map.get[other], now) < CalculateMemoryScore(map.get[key], now)
       \/ /\ CalculateMemoryScore(map.get[other], now) = CalculateMemoryScore(map.get[key], now)
          /\ \E i, j \in DOMAIN map.keys : map.keys[i] = other /\ map.keys[j] = key /\ i < j}

\* AgentMemory.cleanup: the store it leaves. Strength is in hundredths. The
\* weak records go first; above maxMemories, so do the records at the front
\* of the ascending sort by score.
Cleanup(s) ==
    LET weak == {k \in DOMAIN s.shortTermMemory.get : s.shortTermMemory.get[k].strength < 10}
    IN {[s EXCEPT !.shortTermMemory =
           [keys |-> SelectSeq(kept.keys, LAMBDA k : k \notin gone),
            get |-> [k \in DOMAIN kept.get \ gone |-> kept.get[k]]]] :
          <<kept, gone>> \in
            {<<strong,
               IF Len(strong.keys) > s.maxMemories
               THEN {k \in DOMAIN strong.get :
                       Cardinality(SortedBefore(strong, k, s.now))
                           < Len(strong.keys) - s.maxMemories}
               ELSE {}>> :
               strong \in {[keys |-> SelectSeq(s.shortTermMemory.keys, LAMBDA k : k \notin weak),
                            get |-> [k \in DOMAIN s.shortTermMemory.get \ weak |->
                                       s.shortTermMemory.get[k]]]}}}

\* AgentMemory.maybeCleanup: due is whether cleanupInterval has elapsed
MaybeCleanup(s, due) == IF due THEN Cleanup(s) ELSE {s}

\* The record store() creates
NewRecord(s, id, key, data, importance, category) ==
    [id |-> id, key |-> key, data |-> data, category |-> category,
     importance |-> importance, timestamp |-> s.now,
     accessCount |-> 0, strength |-> 100,
     emotional_weight |-> 0, connections |-> NewSet]

\* A mutant of GoesToLongTerm: CRITICAL records only
GoesToLongTermCriticalOnly(importance) == importance > ImportanceHigh

\* if (importance >= this.importance.HIGH)
GoesToLongTerm(importance) == importance >= ImportanceHigh

\* AgentMemory.store
StoreMemory(s, id, key, data, importance, category, due) ==
    LET memory == NewRecord(s, id, key, data, importance, category)
    IN UNION {MaybeCleanup(stored, due) :
                stored \in {IF GoesToLongTerm(importance)
                            THEN [s EXCEPT !.longTermMemory = MapSet(@, key, memory)]
                            ELSE [s EXCEPT !.shortTermMemory = MapSet(@, key, memory)]}}

\* A mutant of Strengthen: the strength is not capped
StrengthenUncapped(strength) == strength + 10

\* Math.min(1.0, memory.strength + 0.1)
Strengthen(strength) == Min(100, strength + 10)

\* AgentMemory.retrieve(key), strengthenMemory = true
RetrieveMemory(s, key) ==
    IF MapHas(s.shortTermMemory, key)
    THEN [s EXCEPT !.shortTermMemory.get[key].accessCount = @ + 1,
                   !.shortTermMemory.get[key].strength = Strengthen(@)]
    ELSE IF MapHas(s.longTermMemory, key)
    THEN [s EXCEPT !.longTermMemory.get[key].accessCount = @ + 1,
                   !.longTermMemory.get[key].strength = Strengthen(@)]
    ELSE s

\* AgentMemory.retrieve(key, strengthenMemory): the store after the call
Retrieve(s, key, strengthenMemory) == IF strengthenMemory THEN RetrieveMemory(s, key) ELSE s

\* A value a query returns: the data of a record, or a record itself
JSData(value) == [t |-> "data", v |-> value]

\* AgentMemory.retrieve: what it returns, memory.data or null
RetrieveResult(s, key) ==
    IF MapHas(s.shortTermMemory, key) THEN JSData(s.shortTermMemory.get[key].data)
    ELSE IF MapHas(s.longTermMemory, key) THEN JSData(s.longTermMemory.get[key].data)
    ELSE JSNull

\* AgentMemory.retrieve: the events it emits
RetrieveEmits(s, key) ==
    IF MapHas(s.shortTermMemory, key) \/ MapHas(s.longTermMemory, key)
    THEN <<"memoryRetrieved">> ELSE <<>>

\* A mutant of ForgetResult: only the short-term deletion is reported
ForgetResultShortTermOnly(s, key) == MapHas(s.shortTermMemory, key)

\* AgentMemory.forget: what it returns, shortTermDeleted || longTermDeleted
ForgetResult(s, key) == MapHas(s.shortTermMemory, key) \/ MapHas(s.longTermMemory, key)

\* AgentMemory.forget: the events it emits
ForgetEmits(s, key) == IF ForgetResult(s, key) THEN <<"memoryForgotten">> ELSE <<>>

\* A mutant of GetRelationship: an unknown participant gives null
GetRelationshipOrNull(s, participantName) ==
    IF MapHas(s.relationships, participantName)
    THEN JSData(s.relationships.get[participantName]) ELSE JSNull

\* AgentMemory.getRelationship: this.relationships.get(participantName),
\* undefined when the map has no such key
GetRelationship(s, participantName) ==
    IF MapHas(s.relationships, participantName)
    THEN JSData(s.relationships.get[participantName]) ELSE JSUndefined

\* Array.prototype.reverse
RECURSIVE Reverse(_)
Reverse(array) ==
    IF Len(array) = 0 THEN <<>> ELSE Append(Reverse(Tail(array)), Head(array))

\* Array.prototype.slice(-limit): -0 is 0, and slice(0) is the whole array
SliceLast(array, limit) ==
    IF limit = 0 THEN array
    ELSE SubSeq(array, Max(1, Len(array) - limit + 1), Len(array))

\* AgentMemory.getConversationsWith(participantName, limit)
ConversationsWith(s, participantName, limit) ==
    Reverse(SliceLast(SelectSeq(s.conversations,
                                LAMBDA conv : conv.participant = participantName),
                      limit))

\* AgentMemory.getRecentConversations(limit)
RecentConversations(s, limit) == Reverse(SliceLast(s.conversations, limit))

\* A mutant of ForgetMemory: the relationships go with the record
ForgetMemoryAndRelationships(s, key) ==
    [s EXCEPT !.shortTermMemory = MapDelete(@, key),
              !.longTermMemory = MapDelete(@, key),
              !.relationships = EmptyMap]

\* AgentMemory.forget
ForgetMemory(s, key) ==
    [s EXCEPT !.shortTermMemory = MapDelete(@, key),
              !.longTermMemory = MapDelete(@, key)]

\* A mutant of CalculateMessageImportance: no Math.min
CalculateMessageImportanceUncapped(message) ==
    ImportanceNormal
    + (IF Len(message) > 100 THEN 1 ELSE 0)
    + (IF Len(message) > 200 THEN 1 ELSE 0)
    + Cardinality({w \in ImportantWords : LowerIncludes(message, w)})
    + (IF Includes(Chars(message), "?") THEN 1 ELSE 0)

\* AgentMemory.calculateMessageImportance
CalculateMessageImportance(message) ==
    Min(ImportanceCritical,
        ImportanceNormal
        + (IF Len(message) > 100 THEN 1 ELSE 0)
        + (IF Len(message) > 200 THEN 1 ELSE 0)
        + Cardinality({w \in ImportantWords : LowerIncludes(message, w)})
        + (IF Includes(Chars(message), "?") THEN 1 ELSE 0))

\* AgentMemory.extractTopics: the topics in the order they are found
ExtractTopics(message) ==
    SelectSeq(Topics, LAMBDA topic : LowerIncludesAny(message, TopicKeywords(topic)))

\* What addConversation computes of each text of the model: its importance,
\* its sentiment and its topics
Analysed ==
    {<<text, CalculateMessageImportance(text), AnalyzeSentiment(text), ExtractTopics(text)>> :
       text \in Texts}

\* calculateMessageImportance, analyzeSentiment and extractTopics of a message
AnalysisOf(message) ==
    IF message \in Texts THEN CHOOSE found \in Analysed : found[1] = message
    ELSE <<message, CalculateMessageImportance(message), AnalyzeSentiment(message),
           ExtractTopics(message)>>

\* AgentMemory.updateRelationship on the relationship map
UpdateRelationshipOf(relationships, participant, conversation) ==
    LET old == IF MapHas(relationships, participant)
               THEN relationships.get[participant]
               ELSE [name |-> participant, known |-> FALSE, sharedTopics |-> NewSet]
        r == UpdateRelationship(old, conversation.sentiment)
    IN MapSet(relationships, participant,
              [name |-> participant,
               known |-> TRUE,
               trustLevel |-> r.trustLevel,
               familiarity |-> r.familiarity,
               totalInteractions |-> r.totalInteractions,
               sentimentHistory |-> r.sentimentHistory,
               sharedTopics |-> IF IsSet(old.sharedTopics)
                                THEN SetAddAll(old.sharedTopics, conversation.topics)
                                ELSE old.sharedTopics])

\* Whether addConversation throws: sharedTopics.add is called for the first
\* topic of the message, and is not a function unless sharedTopics is a Set
AddConversationThrows(s, participant, message) ==
    /\ MapHas(s.relationships, participant)
    /\ ~IsSet(s.relationships.get[participant].sharedTopics)
    /\ Len(AnalysisOf(message)[4]) > 0

\* A mutant of PushConversation: on overflow the newest entry goes
PushConversationPop(conversations, c, limit) ==
    IF Len(conversations) + 1 > limit THEN conversations ELSE Append(conversations, c)

\* conversations.push(conversation); if (length > maxConversations) shift()
PushConversation(conversations, c, limit) ==
    IF Len(conversations) + 1 > limit THEN Tail(Append(conversations, c))
    ELSE Append(conversations, c)

\* AgentMemory.addConversation on the whole store; id and id + 1 are the two
\* identifiers generateMemoryId hands out. A call that throws has logged the
\* conversation and counted the interaction, and stores no memory.
AddConversationTo(s, id, participant, message, type, due) ==
    LET conversation == [id |-> id, participant |-> participant, message |-> message,
                         type |-> type,
                         importance |-> AnalysisOf(message)[2],
                         sentiment |-> AnalysisOf(message)[3],
                         topics |-> AnalysisOf(message)[4]]
    IN UNION {IF c.importance >= ImportanceNormal
                 /\ ~AddConversationThrows(s, participant, message)
              THEN StoreMemory(logged, id + 1, "conversation_" \o NumberToString(id), c,
                               c.importance, "conversation", due)
              ELSE {logged} :
                <<c, logged>> \in
                  {<<c, [s EXCEPT
                          !.conversations = PushConversation(@, c, s.maxConversations),
                          !.relationships = UpdateRelationshipOf(@, participant, c)]>> :
                     c \in {conversation}}}

\* A mutant of ShouldPromote: the importance is not looked at
ShouldPromoteOftenRead(memory) == memory.accessCount > 3

\* if (memory.accessCount > 3 && memory.importance >= this.importance.NORMAL)
ShouldPromote(memory) ==
    memory.accessCount > 3 /\ memory.importance >= ImportanceNormal

RECURSIVE Promote(_, _)
Promote(s, keys) ==
    IF Len(keys) = 0 THEN s
    ELSE CHOOSE after \in
           {Promote(moved, Tail(keys)) :
              moved \in {IF ShouldPromote(s.shortTermMemory.get[Head(keys)])
                         THEN [s EXCEPT
                                 !.longTermMemory =
                                     MapSet(@, Head(keys), s.shortTermMemory.get[Head(keys)]),
                                 !.shortTermMemory = MapDelete(@, Head(keys))]
                         ELSE s}} : TRUE

\* A mutant of DecayStrength: the floor is missing
DecayStrengthNoFloor(strength, decayAmount) == strength - decayAmount

\* Math.max(0, memory.strength - decayAmount)
DecayStrength(strength, decayAmount) == Max(0, strength - decayAmount)

\* AgentMemory.update(deltaTime), deltaTime in units of time: every short-term record
\* decays, and the often-read ones move to the long-term tier in their order
UpdateStore(s, deltaTime, due) ==
    UNION {MaybeCleanup(Promote(decayed, decayed.shortTermMemory.keys), due) :
             decayed \in
               {[s EXCEPT !.shortTermMemory.get =
                    [k \in DOMAIN @ |->
                       [@[k] EXCEPT !.strength = DecayStrength(@, (s.decayRate * deltaTime) \div TicksPerMinute)]]]}}

\* AgentMemory.serialize
Serialize(s) ==
    [shortTermMemory |-> ArrayFromEntries(s.shortTermMemory),
     longTermMemory |-> ArrayFromEntries(s.longTermMemory),
     conversations |-> s.conversations,
     relationships |-> ArrayFromEntries(s.relationships),
     facts |-> ArrayFromEntries(s.facts),
     config |-> [maxMemories |-> s.maxMemories,
                 maxConversations |-> s.maxConversations,
                 decayRate |-> s.decayRate]]

\* A mutant of IsTruthyArray: an empty array counts as missing
IsNonEmptyArray(array) == Len(array) > 0

\* if (data.field) for an array-valued field: every array is truthy
IsTruthyArray(array) == TRUE

\* x || y for the numbers of the configuration
OrElse(x, y) == IF x # 0 THEN x ELSE y

\* AIAgent.generateDefaultSystemPrompt: its first sentence; the text goes on
\* with fixed lines and the personality traits
GenerateDefaultSystemPrompt(agent) ==
    "You are " \o agent.name \o ", a character in a 2D fantasy world game."

\* AIAgent.serialize (worldKnowledge is never written to and stays empty)
SerializeAIAgent(agent) ==
    [name |-> agent.name,
     personality |-> agent.personality,
     conversationHistory |->
        SubSeq(agent.conversationHistory,
               Max(1, Len(agent.conversationHistory) - 9), Len(agent.conversationHistory)),
     responseStyle |-> agent.responseStyle,
     temperature |-> agent.temperature,
     maxTokens |-> agent.maxTokens]

\* AIAgent.deserialize: `data.x || default` for every field, then the system
\* prompt is generated anew
DeserializeAIAgent(agent, data) ==
    LET restored ==
            [name |-> IF data.name # "" THEN data.name ELSE agent.name,
             personality |-> data.personality,
             conversationHistory |-> data.conversationHistory,
             responseStyle |-> IF data.responseStyle # "" THEN data.responseStyle
                               ELSE "conversational",
             temperature |-> OrElse(data.temperature, 7),
             maxTokens |-> OrElse(data.maxTokens, 150)]
    IN [name |-> restored.name,
        personality |-> restored.personality,
        systemPrompt |-> GenerateDefaultSystemPrompt(restored),
        conversationHistory |-> restored.conversationHistory,
        responseStyle |-> restored.responseStyle,
        temperature |-> restored.temperature,
        maxTokens |-> restored.maxTokens]

\* if (data.field): a field the snapshot lacks reads as undefined
Has(data, field) == field \in DOMAIN data /\ IsTruthyArray(data[field])

\* AgentMemory.deserialize into the store s
Deserialize(s, data) ==
    [shortTermMemory |-> IF Has(data, "shortTermMemory")
                         THEN NewMap(data.shortTermMemory) ELSE s.shortTermMemory,
     longTermMemory |-> IF Has(data, "longTermMemory")
                        THEN NewMap(data.longTermMemory) ELSE s.longTermMemory,
     conversations |-> IF Has(data, "conversations")
                       THEN data.conversations ELSE s.conversations,
     relationships |-> IF Has(data, "relationships")
                       THEN NewMap(data.relationships) ELSE s.relationships,
     facts |-> IF Has(data, "facts") THEN NewMap(data.facts) ELSE s.facts,
     maxMemories |-> IF "config" \in DOMAIN data
                     THEN OrElse(data.config.maxMemories, s.maxMemories)
                     ELSE s.maxMemories,
     maxConversations |-> IF "config" \in DOMAIN data
                          THEN OrElse(data.config.maxConversations, s.maxConversations)
                          ELSE s.maxConversations,
     decayRate |-> IF "config" \in DOMAIN data
                   THEN OrElse(data.config.decayRate, s.decayRate)
                   ELSE s.decayRate,
     now |-> s.now]

(* ---- the saved game: GamePersistence writes the snapshot as JSON text ---- *)

\* What JSON.stringify writes for a value that may be a Set: a Set has no
\* enumerable properties of its own, so it is written as {}
JSONOfSet(value) == IF IsSet(value) THEN JSObject ELSE value

\* The entries of a map of records, each with one Set-valued field
JSONOfEntries(entries, field) ==
    [i \in DOMAIN entries |->
       <<entries[i][1], [entries[i][2] EXCEPT ![field] = JSONOfSet(@)]>>]

\* writeToStorage: JSON.stringify(data), for the memory snapshot of a save
JSONStringify(data) ==
    [t |-> "string",
     json |-> [data EXCEPT
                 !.shortTermMemory = JSONOfEntries(@, "connections"),
                 !.longTermMemory = JSONOfEntries(@, "connections"),
                 !.relationships = JSONOfEntries(@, "sharedTopics")]]

\* readFromStorage: JSON.parse(text)
JSONParse(text) == text.json

(* ---- no store operation has run ---- *)

NoRoundTrip == [done |-> FALSE]

\* cleanup has not run
NoCleanup == [ran |-> FALSE]

\* No operation of the store has been called
NoOperation == [op |-> "none"]

\* localStorage.getItem(saveKey) before any save
NoSave == [t |-> "null"]

InitStoreIdle ==
    /\ agentMemory = NewStore
    /\ roundTrip = NoRoundTrip
    /\ memorySteps = 0
    /\ retrievals = 0
    /\ storage = NoSave
    /\ storeError = FALSE
    /\ lastCleanup = NoCleanup
    /\ lastCall = NoOperation

-----------------------------------------------------------------------------
(* SpecEngine: one generateResponse call at a time, start to end *)

NoCall == [stage |-> "none"]
NoResult == [path |-> "none"]

InitEngine ==
    /\ call = NoCall
    /\ lastResult = NoResult

InitChatIdle ==
    /\ isOpen = FALSE
    /\ currentAgent = NoAgent
    /\ isWaitingForResponse = FALSE
    /\ messageHistory = <<>>
    /\ isPaused = FALSE
    /\ isInConversation = [a \in Agents |-> FALSE]
    /\ conversationLog = [a \in Agents |-> <<>>]
    /\ memoryUpdates = 0
    /\ inflight = {}
    /\ sentCount = 0

\* generateResponse(message, context) up to its first suspension
GenerateResponse ==
    /\ call = NoCall
    /\ \E a \in Agents, message \in EngineMessages :
        IF Configured(a)
        THEN /\ call' = [stage |-> "fetch", agent |-> a, message |-> message,
                         fetches |-> 1, net |-> "none"]
             /\ UNCHANGED lastResult
        ELSE /\ \E reply \in UnconfiguredReplies(a, message) :
                  lastResult' = [path |-> "unconfigured", agent |-> a,
                                 net |-> "none", body |-> "none",
                                 reply |-> reply, fetches |-> 0,
                                 suspended |-> FALSE, rejected |-> FALSE]
             /\ UNCHANGED call
    /\ UNCHANGED <<storeVars, personaVars, configVars, chatVars>>

\* fetch settles: a rejection or a non-2xx status ends in the catch block
EngineFetchSettles ==
    /\ call.stage = "fetch"
    /\ \E net \in NetOutcomes :
        IF FetchThrows(net)
        THEN /\ \E reply \in CatchReplies(call.agent, call.message, net) :
                  lastResult' = [path |-> "failed", agent |-> call.agent,
                                 net |-> net, body |-> "none",
                                 reply |-> reply, fetches |-> call.fetches,
                                 suspended |-> TRUE, rejected |-> FALSE]
             /\ call' = NoCall
        ELSE /\ call' = [call EXCEPT !.stage = "json", !.net = net]
             /\ UNCHANGED lastResult
    /\ UNCHANGED <<storeVars, personaVars, configVars, chatVars>>

\* response.json() settles and generateAIResponse runs to its end
EngineBodySettles ==
    /\ call.stage = "json"
    /\ \E body \in Bodies :
        LET r == GenerateAIResponse(body)
        IN IF r.thrown
           THEN \E reply \in CatchReplies(call.agent, call.message, r.text) :
                  lastResult' = [path |-> "failed", agent |-> call.agent,
                                 net |-> call.net, body |-> body.kind,
                                 reply |-> reply, fetches |-> call.fetches,
                                 suspended |-> TRUE, rejected |-> FALSE]
           ELSE lastResult' = [path |-> "ai", agent |-> call.agent,
                               net |-> call.net, body |-> body.kind,
                               reply |-> r.text, fetches |-> call.fetches,
                               suspended |-> TRUE, rejected |-> FALSE]
    /\ call' = NoCall
    /\ UNCHANGED <<storeVars, personaVars, configVars, chatVars>>

NextEngine ==
    \/ SetAPIConfiguration
    \/ GenerateResponse
    \/ EngineFetchSettles
    \/ EngineBodySettles

InitSpecEngine ==
    InitConfig /\ InitEngine /\ InitChatIdle /\ InitPersonaIdle /\ InitStoreIdle

SpecEngine == InitSpecEngine /\ [][NextEngine]_vars

\* C1: generateResponse never rejects and always resolves to a non-empty
\* string, whatever the external call does (not configured, network error,
\* non-2xx, missing or empty choices, a reply whose content is any string).
C1_AlwaysNonEmptyReply ==
    lastResult # NoResult => ~lastResult.rejected /\ lastResult.reply # ""

\* "absent": null, undefined or the blank string
Absent(v) == v.t \in {"null", "undefined"} \/ (v.t = "string" /\ v.v = "")

ConfigAbsent(a) == Absent(apiEndpoint[a]) \/ Absent(apiKey[a])

\* C22: when the environment configuration is enabled with a non-blank
\* endpoint and key, every agent's Response Engine holds that endpoint and
\* that key (until the console configures the engines), so that its
\* generateResponse calls attempt external generation.
C22_EnvironmentConfigurationHeld ==
    (aiConfig.enabled /\ ~Absent(aiConfig.apiEndpoint) /\ ~Absent(aiConfig.apiKey)) =>
        \A a \in Agents :
            <<apiEndpoint[a], apiKey[a]>>
                \in {<<aiConfig.apiEndpoint, aiConfig.apiKey>>} \cup ConsoleConfigs

\* C2: with the endpoint or the key absent, a generateResponse call issues no
\* external request and is never left suspended: it resolves in the same
\* step, to a non-empty string of the agent's fallback pools.
C2_NoRequestWhenUnconfigured ==
    [][/\ (call = NoCall /\ call' # NoCall) => ~ConfigAbsent(call'.agent)
       /\ (call = NoCall /\ lastResult' # lastResult /\ ConfigAbsent(lastResult'.agent))
            => /\ lastResult'.fetches = 0
               /\ ~lastResult'.suspended
               /\ ~lastResult'.rejected
               /\ lastResult'.reply # ""
               /\ lastResult'.reply \in FallbackStrings(lastResult'.agent)]_vars

\* C2 witness: a call made with an endpoint but a blank key has resolved
C2_Witness ==
    /\ lastResult # NoResult
    /\ lastResult.path = "unconfigured"
    /\ Truthy(apiEndpoint[lastResult.agent])
    /\ apiKey[lastResult.agent] = JSString("")

ExternalCallFailed(r) ==
    \/ r.net \in {"network_error", "http_500"}
    \/ (r.net = "ok" /\ r.body \in {"no_choices", "empty_choices"})

\* C3: when the configured external call fails (network error, non-2xx,
\* missing choices, empty choices) generateResponse resolves to one of the
\* agent's fallback strings, has issued exactly one request, and does not
\* surface the failure.
C3_FailureFallsBackOnce ==
    (lastResult # NoResult /\ ExternalCallFailed(lastResult))
        => /\ lastResult.reply \in FallbackStrings(lastResult.agent)
           /\ lastResult.fetches = 1
           /\ ~lastResult.rejected

\* C3 witness: a call answered with HTTP 500 has resolved
C3_Witness ==
    lastResult # NoResult /\ lastResult.net = "http_500"

-----------------------------------------------------------------------------
(* Spec: chat UI, game engine and the suspended receiveMessage calls *)

Inputs == {"Hi", "  ??  ", "   "}

maxMessageLength == 500

CallsOf(a) == {c \in inflight : c.agent = a}

maxHistoryMessages == 50

\* ChatInterface.addMessage(text, sender, senderName), on the transcript
AddMessage(history, sender, senderName) ==
    LET pushed == Append(history, [sender |-> sender, senderName |-> senderName])
    IN IF Len(pushed) > maxHistoryMessages THEN Tail(pushed) ELSE pushed

\* GameEngine.startConversation -> ChatInterface.openChat(agent): clearHistory,
\* setWaitingState(false), agent.startConversation, addGreeting
StartConversation(a) ==
    /\ isPaused' = TRUE
    /\ currentAgent' = a
    /\ isOpen' = TRUE
    /\ isWaitingForResponse' = FALSE
    /\ messageHistory' = AddMessage(<<>>, "agent", AgentName(a))
    /\ isInConversation' = [isInConversation EXCEPT ![a] = TRUE]
    /\ UNCHANGED <<storeVars, personaVars, configVars, engineVars, conversationLog, memoryUpdates,
                   inflight, sentCount>>

\* inputManager 'interact': the E key next to an agent, chat closed. Which
\* agent is nearby follows from positions, which are not part of the state.
Interact ==
    /\ ~isOpen
    /\ \E a \in Agents : StartConversation(a)

\* window.debugFunctions.talkTo(agentName)
TalkTo ==
    \E a \in Agents : StartConversation(a)

\* ChatInterface.closeChat and the engine's 'chatClosed' listener
CloseChat ==
    /\ isOpen
    /\ isInConversation' =
         IF currentAgent # NoAgent
         THEN [isInConversation EXCEPT ![currentAgent] = FALSE]
         ELSE isInConversation
    /\ isOpen' = FALSE
    /\ currentAgent' = NoAgent
    /\ isWaitingForResponse' = FALSE
    /\ isPaused' = FALSE
    /\ UNCHANGED <<storeVars, personaVars, configVars, engineVars, messageHistory,
                   conversationLog, memoryUpdates,
                   inflight, sentCount>>

\* window 'blur' / document hidden: GameEngine.pause
WindowBlur ==
    /\ isPaused' = TRUE
    /\ UNCHANGED <<storeVars, personaVars, configVars, engineVars, isOpen, currentAgent,
                   isWaitingForResponse, isInConversation, messageHistory, conversationLog,
                   memoryUpdates, inflight, sentCount>>

\* window 'focus' / document visible: resume unless the chat is open
WindowFocus ==
    /\ ~isOpen
    /\ isPaused' = FALSE
    /\ UNCHANGED <<storeVars, personaVars, configVars, engineVars, isOpen, currentAgent,
                   isWaitingForResponse, isInConversation, messageHistory, conversationLog,
                   memoryUpdates, inflight, sentCount>>

\* GameEngine.gameLoop -> update: every agent's update (Agent.update ->
\* updateMemory -> AgentMemory.update)
GameLoop ==
    /\ ~isPaused
    /\ memoryUpdates < MaxTicks
    /\ memoryUpdates' = memoryUpdates + 1
    /\ UNCHANGED <<storeVars, personaVars, configVars, engineVars, isOpen, currentAgent,
                   isWaitingForResponse, isPaused, isInConversation, messageHistory,
                   conversationLog, inflight, sentCount>>

\* receiveMessage's end and ChatInterface.handleAgentResponse:
\* memory.addConversation(.., 'sent'), then setWaitingState(false)
Resolve(a) ==
    /\ conversationLog' = [conversationLog EXCEPT ![a] = Append(@, "sent")]
    /\ isWaitingForResponse' = FALSE
    /\ messageHistory' = AddMessage(messageHistory, "agent", AgentName(a))

\* ChatInterface.sendMessage -> 'messageSent' -> handlePlayerMessage ->
\* receiveMessage -> aiAgent.generateResponse. Without configuration nothing
\* is awaited but already-settled promises, so the reply is delivered before
\* any other event is served; with it the call is suspended on fetch.
SendMessage ==
    /\ currentAgent # NoAgent
    /\ ~isWaitingForResponse
    /\ sentCount < MaxCalls
    /\ \E input \in Inputs :
        LET message == Trim(input)
        IN /\ message # ""
           /\ Len(message) <= maxMessageLength
    /\ sentCount' = sentCount + 1
    /\ IF Configured(currentAgent)
       THEN /\ inflight' = inflight \cup
                 {[id |-> sentCount + 1, agent |-> currentAgent,
                   stage |-> "fetch", stalled |-> FALSE]}
            /\ conversationLog' =
                 [conversationLog EXCEPT ![currentAgent] = Append(@, "received")]
            /\ isWaitingForResponse' = TRUE
            /\ messageHistory' =
                 AddMessage(messageHistory, "player", "Player")
       ELSE /\ conversationLog' =
                 [conversationLog EXCEPT
                    ![currentAgent] = Append(Append(@, "received"), "sent")]
            /\ isWaitingForResponse' = FALSE
            /\ messageHistory' =
                 AddMessage(AddMessage(messageHistory, "player", "Player"),
                            "agent", AgentName(currentAgent))
            /\ UNCHANGED inflight
    /\ UNCHANGED <<storeVars, personaVars, configVars, engineVars, isOpen, currentAgent, isPaused,
                   isInConversation, memoryUpdates>>

\* The request never completes: the server accepted it and stays silent
RequestStalls ==
    \E c \in inflight :
        /\ c.stage = "fetch"
        /\ ~c.stalled
        /\ inflight' = (inflight \ {c}) \cup {[c EXCEPT !.stalled = TRUE]}
        /\ UNCHANGED <<storeVars, personaVars, configVars, engineVars, isOpen, currentAgent,
                       isWaitingForResponse, isPaused, isInConversation, messageHistory,
                       conversationLog, memoryUpdates, sentCount>>

\* fetch settles: rejection and non-2xx end in generateResponse's catch and
\* the reply is delivered; a 2xx response goes on to read its body
FetchSettles ==
    \E c \in inflight, net \in NetOutcomes :
        /\ c.stage = "fetch"
        /\ ~c.stalled
        /\ IF FetchThrows(net)
           THEN /\ Resolve(c.agent)
                /\ inflight' = inflight \ {c}
           ELSE /\ inflight' = (inflight \ {c}) \cup {[c EXCEPT !.stage = "json"]}
                /\ UNCHANGED <<conversationLog, isWaitingForResponse, messageHistory>>
        /\ UNCHANGED <<storeVars, personaVars, configVars, engineVars, isOpen, currentAgent, isPaused,
                       isInConversation, memoryUpdates, sentCount>>

\* response.json() settles, generateAIResponse and receiveMessage run to
\* their end and the reply is delivered
BodySettles ==
    \E c \in inflight :
        /\ c.stage = "json"
        /\ Resolve(c.agent)
        /\ inflight' = inflight \ {c}
        /\ UNCHANGED <<storeVars, personaVars, configVars, engineVars, isOpen, currentAgent, isPaused,
                       isInConversation, memoryUpdates, sentCount>>

Init == InitConfig /\ InitEngine /\ InitChatIdle /\ InitPersonaIdle /\ InitStoreIdle

Next ==
    \/ SetAPIConfiguration
    \/ Interact
    \/ TalkTo
    \/ CloseChat
    \/ WindowBlur
    \/ WindowFocus
    \/ GameLoop
    \/ SendMessage
    \/ RequestStalls
    \/ FetchSettles
    \/ BodySettles

Spec == Init /\ [][Next]_vars

\* C36: at most one conversation is open at a time, and an agent's
\* isInConversation flag is true exactly while that agent is the currentAgent
\* of the open chat, after any sequence of conversation starts, chat closes
\* and message operations
C36_OneOpenConversation ==
    \A a \in Agents : isInConversation[a] <=> (isOpen /\ currentAgent = a)

\* C40: a reply is appended to the transcript and clears the waiting state
\* only if the chat is still open with the agent the reply came from; a reply
\* that arrives after the chat was closed, or reopened with another agent,
\* changes neither the transcript nor the waiting state
C40_ReplyOnlyToItsOwnChat ==
    [][\A c \in inflight \ inflight' :
          \/ isOpen /\ currentAgent = c.agent
          \/ /\ messageHistory' = messageHistory
             /\ isWaitingForResponse' = isWaitingForResponse]_vars

\* The event loop serves a settled request: its continuation runs
FairSpec == Spec /\ WF_vars(FetchSettles) /\ WF_vars(BodySettles)

Pending(id) == \E c \in inflight : c.id = id

\* C4: every generateResponse call eventually resolves (a request that never
\* completes is cut off by a bounded timeout and answered by the fallback).
C4_EveryCallResolves ==
    \A id \in 1..MaxCalls : Pending(id) ~> ~Pending(id)

\* C5: at most one receiveMessage/generation request per agent is in flight.
C5_OneInFlightPerAgent ==
    \A a \in Agents : Cardinality(CallsOf(a)) <= 1

\* C6: no world-tick update (AgentMemory.update) runs while a response is in
\* flight (after its 'received' entry, before its 'sent' entry).
C6_NoTickWhileInFlight ==
    [][memoryUpdates' # memoryUpdates => inflight = {}]_vars

-----------------------------------------------------------------------------
(* SpecPersona: the same messages given to two runs of the personas, one on
   each reply path *)

\* One more exchange of an earlier session, answered on the given path
EarlierExchange(p, path, a, message) ==
    LET settled == CHOOSE s \in GenerateResponseSettles(path, a, message) :
                       path = "external" => s.text = "Indeed."
    IN (CHOOSE x \in Exchange(p, a, message, settled) : TRUE).p

\* The personas after n rounds in which each of them was sent the message
RECURSIVE EarlierSession(_, _, _, _)
EarlierSession(p, path, message, n) ==
    IF n = 0 THEN p
    ELSE CHOOSE after \in
             {EarlierSession(m, path, message, n - 1) :
                m \in {EarlierExchange(e, path, "milo", message) :
                  e \in {EarlierExchange(t, path, "elara", message) :
                    t \in {EarlierExchange(p, path, "tiberius", message)}}}} : TRUE

\* The personas at the start of the exchanges followed: as constructed, or
\* after an earlier session of friendly or of hostile messages
InitPersona ==
    /\ \E earlier \in {"none", WarmMessage, ColdMessage} :
         persona = [path \in Paths |->
                      IF earlier = "none" THEN InitialPersona
                      ELSE EarlierSession(InitialPersona, path, earlier, PriorExchanges)]
    /\ exchange = NoExchange
    /\ exchanges = 0
    /\ consoleCalls = 0
    /\ personaTrip = [done |-> FALSE]

\* The outcomes of one receiveMessage call of the run on the given path
Exchanges(path, a, message) ==
    UNION {Exchange(persona[path], a, message, settled) :
             settled \in GenerateResponseSettles(path, a, message)}

\* The replies generateScriptedResponse selects for the message in the state
\* the persona has when its catch block would run
ScriptedReplies(p, a, message) ==
    UNION {{x.reply : x \in GenerateScriptedResponse(analysed, a, message)} :
             analysed \in {ReceiveMessageStart(p, a, message)}}

\* handlePlayerMessage -> receiveMessage, in both runs
ReceiveMessage ==
    /\ exchanges < MaxExchanges
    /\ \E a \in Agents, message \in PlayerMessages :
         \E xe \in Exchanges("external", a, message),
            xf \in Exchanges("fallback", a, message),
            scripted \in {ScriptedReplies(persona["fallback"], a, message)} :
              /\ persona' = [external |-> xe.p, fallback |-> xf.p]
              /\ exchange' =
                   [agent |-> a, message |-> message,
                    reply |-> [external |-> xe.reply, fallback |-> xf.reply],
                    scripted |-> scripted]
    /\ exchanges' = exchanges + 1
    /\ UNCHANGED <<storeVars, configVars, chatVars, engineVars, consoleCalls, personaTrip>>

TrustInputs == {-20, 71, 250}

\* window.debugFunctions.setAgentTrust(agentName, trustLevel), in both runs
SetAgentTrust ==
    /\ consoleCalls < MaxConsoleCalls
    /\ \E a \in Agents, trustLevel \in TrustInputs :
         persona' = [path \in Paths |->
                       [persona[path] EXCEPT !.trustLevel[a] = Max(0, Min(100, trustLevel))]]
    /\ consoleCalls' = consoleCalls + 1
    /\ UNCHANGED <<storeVars, configVars, chatVars, engineVars, exchange, exchanges,
                   personaTrip>>

PartInputs == {"Precision Spring", "Weather Crystal", "Rusty Nail"}

\* Milo.addPartFound(partName)
AddPartFound(p, partName) ==
    LET found == {i \in DOMAIN p.partsNeeded : p.partsNeeded[i].name = partName}
        partIndex == CHOOSE i \in found : \A j \in found : i <= j
        progressed == UpdateInventionProgress(p, p.partsNeeded[partIndex].project, 15)
    IN IF found = {} THEN p
       ELSE [progressed EXCEPT
               !.partsNeeded = SubSeq(@, 1, partIndex - 1) \o SubSeq(@, partIndex + 1, Len(@)),
               !.excitementLevel = Min(100, @ + 25)]

\* milo.addPartFound(partName) from the console, in both runs
PartFound ==
    /\ consoleCalls < MaxConsoleCalls
    /\ \E partName \in PartInputs :
         persona' = [path \in Paths |-> AddPartFound(persona[path], partName)]
    /\ consoleCalls' = consoleCalls + 1
    /\ UNCHANGED <<storeVars, configVars, chatVars, engineVars, exchange, exchanges,
                   personaTrip>>

NextPersona ==
    \/ ReceiveMessage
    \/ SetAgentTrust
    \/ PartFound

InitSpecPersona ==
    InitConfig /\ InitEngine /\ InitChatIdle /\ InitPersona /\ InitStoreIdle

SpecPersona == InitSpecPersona /\ [][NextPersona]_vars

\* C7: whenever external generation is unavailable or fails, the reply a
\* persona's receiveMessage returns is one its own scripted rule tree
\* (generateScriptedResponse) selects for that message in that state.
C7_FallbackReplyIsScripted ==
    exchange # NoExchange => exchange.reply["fallback"] \in exchange.scripted

\* The progress state the claim lists, without Tiberius's flag for revealed
\* information
Progress(p) ==
    [trustLevel |-> p.trustLevel,
     missing_book_clues |-> p.questProgress.missing_book_clues,
     player_trustworthiness |-> p.questProgress.player_trustworthiness,
     salesPitch |-> p.salesPitch,
     businessRelationship |-> p.businessRelationship,
     excitementLevel |-> p.excitementLevel,
     demonstrationCount |-> p.demonstrationCount,
     inventionProgress |-> p.inventionProgress]

\* C8 (as stated): after the same messages, the run answered by the external
\* generator and the run answered by the fallback path have equal progress
\* state, every quest flag included.
C8_ProgressIndependentOfPath ==
    /\ Progress(persona["external"]) = Progress(persona["fallback"])
    /\ persona["external"].questProgress = persona["fallback"].questProgress

\* C8 (amended): after the same messages, the two runs agree on trustLevel,
\* the quest counters, salesPitch, businessRelationship, excitementLevel,
\* demonstrationCount and inventionProgress; only sensitive_info_revealed,
\* which is set from the text of the reply, may differ.
C8_ProgressIndependentExceptRevealed ==
    Progress(persona["external"]) = Progress(persona["fallback"])

\* C8 witness: an exchange with Tiberius answered differently on the two
\* paths has moved his trust and his quest counters
C8_Witness ==
    /\ exchange # NoExchange
    /\ exchange.agent = "tiberius"
    /\ exchange.reply["external"] # exchange.reply["fallback"]
    /\ persona["external"].questProgress.sensitive_info_revealed
    /\ ~persona["fallback"].questProgress.sensitive_info_revealed
    /\ persona["fallback"].questProgress.missing_book_clues > 0
    /\ persona["fallback"].trustLevel["tiberius"] # InitialPersona.trustLevel["tiberius"]

\* Tiberius's trust when analyzePlayerMessage reaches the test for pushy
\* messages: the increments for scholarly interest and politeness are done
TrustBeforePenalty(p, message) ==
    LET t1 == IF LowerIncludesAny(message, {"book", "history", "knowledge", "learn"})
              THEN AdjustTrust(p.trustLevel["tiberius"], 5) ELSE p.trustLevel["tiberius"]
    IN IF LowerIncludesAny(message, {"please", "thank", "respect"})
       THEN AdjustTrust(t1, 3) ELSE t1

\* C33: a pushy message (containing 'tell me everything' or 'secret') lowers
\* Tiberius's trust by 5 only while his trust is below trustThreshold; at or
\* above the threshold it causes no penalty.
C33_PushyPenaltyOnlyBelowThreshold ==
    [][(/\ exchanges' = exchanges + 1
        /\ exchange'.agent = "tiberius"
        /\ LowerIncludesAny(exchange'.message, {"tell me everything", "secret"}))
       => \A path \in Paths :
             LET trust == TrustBeforePenalty(persona[path], exchange'.message)
             IN persona'[path].trustLevel["tiberius"] =
                   IF trust < trustThreshold THEN AdjustTrust(trust, -5) ELSE trust]_vars

\* C9: every persona's trustLevel, every relationship record's trustLevel and
\* Milo's excitementLevel stay within [0, 100], in both runs.
C9_LevelsWithinRange ==
    \A path \in Paths :
        /\ \A a \in Agents :
             /\ persona[path].trustLevel[a] \in 0..100
             /\ persona[path].memory[a].relationship.known
                  => persona[path].memory[a].relationship.trustLevel \in 0..100
        /\ persona[path].excitementLevel \in 0..100

\* C9 witness: after a friendly session Milo is sent one more message that
\* raises trust and a part is found, and all three levels sit at the upper end
C9_Witness ==
    /\ exchange # NoExchange
    /\ exchange.agent = "milo"
    /\ exchange.message = "Can you explain how to build a machine?"
    /\ consoleCalls > 0
    /\ persona["fallback"].trustLevel["milo"] = 100
    /\ persona["fallback"].memory["milo"].relationship.trustLevel = 100
    /\ persona["fallback"].excitementLevel = 100

-----------------------------------------------------------------------------
(* SpecPersonaSave: the personas, adjusted from the console, and the round
   trip of the state saveGame writes and loadGame restores *)

\* Array.from(set): the elements in some order
RECURSIVE ArrayFromSet(_)
ArrayFromSet(set) ==
    IF set = {} THEN <<>>
    ELSE CHOOSE array \in {<<x>> \o ArrayFromSet(set \ {x}) : x \in {CHOOSE y \in set : TRUE}} :
           TRUE

\* new Set(array)
SetFromArray(array) == {array[i] : i \in DOMAIN array}

\* Agent.serialize and the serialize of each persona, for the state followed
SerializePersona(p, a) ==
    CASE a = "tiberius" ->
           [trustLevel |-> p.trustLevel[a],
            knowledgeShared |-> ArrayFromSet(p.knowledgeShared),
            questProgress |-> p.questProgress,
            trustThreshold |-> trustThreshold]
      [] a = "elara" ->
           [trustLevel |-> p.trustLevel[a],
            businessRelationship |-> p.businessRelationship,
            gossipShared |-> ArrayFromSet(p.gossipShared),
            salesPitch |-> p.salesPitch]
      [] a = "milo" ->
           [trustLevel |-> p.trustLevel[a],
            inventionProgress |-> p.inventionProgress,
            partsNeeded |-> p.partsNeeded,
            excitementLevel |-> p.excitementLevel,
            demonstrationCount |-> p.demonstrationCount]

\* Agent.deserialize and the deserialize of each persona, into the persona p:
\* the numbers are restored with `data.x || default`
DeserializePersona(p, a, data) ==
    CASE a = "tiberius" ->
           [p EXCEPT !.trustLevel[a] = OrElse(data.trustLevel, 50),
                     !.knowledgeShared = SetFromArray(data.knowledgeShared),
                     !.questProgress = data.questProgress]
      [] a = "elara" ->
           [p EXCEPT !.trustLevel[a] = OrElse(data.trustLevel, 50),
                     !.businessRelationship =
                         IF data.businessRelationship # "" THEN data.businessRelationship
                         ELSE "potential_customer",
                     !.gossipShared = SetFromArray(data.gossipShared),
                     !.salesPitch = OrElse(data.salesPitch, 0)]
      [] a = "milo" ->
           [p EXCEPT !.trustLevel[a] = OrElse(data.trustLevel, 50),
                     !.inventionProgress = data.inventionProgress,
                     !.partsNeeded = data.partsNeeded,
                     !.excitementLevel = OrElse(data.excitementLevel, 50),
                     !.demonstrationCount = OrElse(data.demonstrationCount, 0)]

\* agent.deserialize(agent.serialize()), as debugFunctions.saveGame and
\* loadGame apply them to each agent
PersonaRoundTrip ==
    /\ \E path \in Paths, a \in Agents :
         personaTrip' = [done |-> TRUE, agent |-> a,
                         original |-> persona[path],
                         restored |-> DeserializePersona(persona[path], a,
                                                         SerializePersona(persona[path], a))]
    /\ UNCHANGED <<storeVars, configVars, chatVars, engineVars, persona, exchange,
                   exchanges, consoleCalls>>

NextPersonaSave ==
    \/ SetAgentTrust
    \/ PartFound
    \/ PersonaRoundTrip

InitSpecPersonaSave ==
    InitConfig /\ InitEngine /\ InitChatIdle /\ InitPersona /\ InitStoreIdle

SpecPersonaSave == InitSpecPersonaSave /\ [][NextPersonaSave]_vars

\* C12: deserialize(serialize(persona)) restores the persona it was taken
\* from: its trust level, its progress counters and its shared sets are the
\* originals, a trust level of 0 included.
C12_PersonaRoundTrip ==
    personaTrip.done => personaTrip.restored = personaTrip.original

\* What one agent holds of the personas' state: its trust level, its progress
\* state (the fields of its class) and its Memory Store
StateOfAgent(p, a) == [own |-> SerializePersona(p, a), memory |-> p.memory[a]]

-----------------------------------------------------------------------------
(* SpecStore: one AgentMemory, its operations, and the round trip of its
   snapshot *)

(* ---- the operations ---- *)

MemoryKeys == {"met_player"}

StoreMessages == {"Please tell me about the missing book",
                  "Can you help me with a problem?"}

\* agent.remember(key, value, importance)
Remember ==
    /\ memorySteps < MaxMemorySteps
    /\ \E key \in MemoryKeys,
          importance \in {ImportanceLow, ImportanceNormal, ImportanceHigh},
          due \in BOOLEAN :
         agentMemory' \in StoreMemory(agentMemory, 2 * memorySteps, key, "seen at the library",
                                      importance, "fact", due)
    /\ memorySteps' = memorySteps + 1
    /\ UNCHANGED <<configVars, chatVars, engineVars, personaVars, saveVars, roundTrip, retrievals>>

\* agent.recall(key)
Recall ==
    /\ retrievals < MaxRetrievals
    /\ \E key \in DOMAIN agentMemory.shortTermMemory.get
                  \cup DOMAIN agentMemory.longTermMemory.get \cup MemoryKeys :
         agentMemory' = RetrieveMemory(agentMemory, key)
    /\ retrievals' = retrievals + 1
    /\ UNCHANGED <<configVars, chatVars, engineVars, personaVars, saveVars, roundTrip, memorySteps>>

\* memory.forget(key)
Forget ==
    /\ memorySteps < MaxMemorySteps
    /\ \E key \in DOMAIN agentMemory.shortTermMemory.get
                  \cup DOMAIN agentMemory.longTermMemory.get \cup MemoryKeys :
         agentMemory' = ForgetMemory(agentMemory, key)
    /\ memorySteps' = memorySteps + 1
    /\ UNCHANGED <<configVars, chatVars, engineVars, personaVars, saveVars, roundTrip, retrievals>>

\* memory.addConversation(sender, message, 'received')
Converse ==
    /\ memorySteps < MaxMemorySteps
    /\ \E message \in StoreMessages, due \in BOOLEAN :
         /\ agentMemory' \in AddConversationTo(agentMemory, 2 * memorySteps, "Player", message,
                                               "received", due)
         /\ storeError' = AddConversationThrows(agentMemory, "Player", message)
    /\ memorySteps' = memorySteps + 1
    /\ UNCHANGED <<configVars, chatVars, engineVars, personaVars, lastCall, storage, roundTrip,
                   retrievals, lastCleanup>>

\* the game time handed to update, in units of time: none, or 15 minutes
DecayInputs == {0, 30}

\* Agent.updateMemory -> memory.update(deltaTime)
Decay ==
    /\ memorySteps < MaxMemorySteps
    /\ \E deltaTime \in DecayInputs, due \in BOOLEAN :
         agentMemory' \in UpdateStore([agentMemory EXCEPT !.now = @ + deltaTime],
                                      deltaTime, due)
    /\ memorySteps' = memorySteps + 1
    /\ UNCHANGED <<configVars, chatVars, engineVars, personaVars, saveVars, roundTrip, retrievals>>

\* A store that has been used: the memory a snapshot is loaded into need not be
\* a new one
UsedStore ==
    CHOOSE used \in
      UNION {AddConversationTo(s, 102, "Player", "Can you help me with a problem?",
                               "received", FALSE) :
               s \in StoreMemory(NewStore, 101, "old_key", "old", ImportanceNormal,
                                 "fact", FALSE)} : TRUE

\* target.deserialize(agentMemory.serialize())
RoundTrip ==
    /\ ~roundTrip.done
    /\ \E target \in {NewStore, UsedStore} :
         roundTrip' = [done |-> TRUE,
                       original |-> agentMemory,
                       target |-> target,
                       restored |-> Deserialize(target, Serialize(agentMemory))]
    /\ UNCHANGED <<configVars, chatVars, engineVars, personaVars, saveVars, agentMemory,
                   memorySteps, retrievals>>

NextStore ==
    \/ Remember
    \/ Recall
    \/ Forget
    \/ Converse
    \/ Decay
    \/ RoundTrip

InitSpecStore ==
    InitConfig /\ InitEngine /\ InitChatIdle /\ InitPersonaIdle /\ InitStoreIdle

SpecStore == InitSpecStore /\ [][NextStore]_vars

\* C20: no operation of the store (store, retrieve, forget, addConversation,
\* update with its cleanup) removes a Relationship Record that exists, and the
\* record's totalInteractions never decreases.
C20_RelationshipsPersist ==
    [][\A name \in DOMAIN agentMemory.relationships.get :
          /\ MapHas(agentMemory'.relationships, name)
          /\ agentMemory'.relationships.get[name].totalInteractions
               >= agentMemory.relationships.get[name].totalInteractions
    ]_vars

\* C20 witness: the player's record is there after the memory of the
\* conversation that created it has gone from both tiers
C20_Witness ==
    /\ MapHas(agentMemory.relationships, "Player")
    /\ agentMemory.relationships.get["Player"].totalInteractions = 1
    /\ Len(agentMemory.conversations) = 1
    /\ memorySteps = 2
    /\ agentMemory.shortTermMemory.keys = <<>>
    /\ agentMemory.longTermMemory.keys = <<>>

\* C14: an update() call moves every short-term record that has been read more
\* than three times and is of importance NORMAL or higher to the long-term
\* tier, so that it is no longer in the short-term tier, and adds no other
\* record to the long-term tier.
C14_PromotionOnUpdate ==
    [][Decay =>
         \E often \in {{key \in DOMAIN agentMemory.shortTermMemory.get :
                          /\ agentMemory.shortTermMemory.get[key].accessCount > 3
                          /\ agentMemory.shortTermMemory.get[key].importance >= ImportanceNormal}} :
            /\ \A key \in often :
                 /\ MapHas(agentMemory'.longTermMemory, key)
                 /\ ~MapHas(agentMemory'.shortTermMemory, key)
            /\ DOMAIN agentMemory'.longTermMemory.get
                 = DOMAIN agentMemory.longTermMemory.get \cup often
            /\ \A key \in DOMAIN agentMemory.longTermMemory.get \ often :
                 agentMemory'.longTermMemory.get[key] = agentMemory.longTermMemory.get[key]
    ]_vars

\* C14 witness: a record of importance NORMAL, which store() puts in the
\* short-term tier, has been read four times and is now in the long-term tier
\* only
C14_Witness ==
    \E key \in DOMAIN agentMemory.longTermMemory.get :
        /\ agentMemory.longTermMemory.get[key].importance = ImportanceNormal
        /\ agentMemory.longTermMemory.get[key].accessCount > 3
        /\ ~MapHas(agentMemory.shortTermMemory, key)

\* The records of both tiers
Records(s) ==
    {s.shortTermMemory.get[key] : key \in DOMAIN s.shortTermMemory.get}
    \cup {s.longTermMemory.get[key] : key \in DOMAIN s.longTermMemory.get}

\* C15: the strength of every record stays within [0, 1] (0..100 hundredths)
\* in every state, and an update(dt) with dt >= 0 leaves no short-term record
\* stronger than it was, whether the record stays or moves to the long-term
\* tier.
C15_StrengthDecaysWithinRange ==
    [][/\ \A memory \in Records(agentMemory') :
            memory.strength >= 0 /\ memory.strength <= 100
       /\ Decay =>
            \A key \in DOMAIN agentMemory.shortTermMemory.get :
                /\ MapHas(agentMemory'.shortTermMemory, key) =>
                       agentMemory'.shortTermMemory.get[key].strength
                           <= agentMemory.shortTermMemory.get[key].strength
                /\ (~MapHas(agentMemory'.shortTermMemory, key)
                      /\ MapHas(agentMemory'.longTermMemory, key)) =>
                       agentMemory'.longTermMemory.get[key].strength
                           <= agentMemory.shortTermMemory.get[key].strength
    ]_vars

\* C15 witness: a short-term record that was read at full strength, where the
\* cap held it at 1, has since decayed to the floor
C15_Witness ==
    \E key \in DOMAIN agentMemory.shortTermMemory.get :
        /\ agentMemory.shortTermMemory.get[key].accessCount > 0
        /\ agentMemory.shortTermMemory.get[key].strength = 0

\* C10: deserialize(serialize(store)) has the conversation log, the
\* relationship map and both memory tiers of the store it was taken from,
\* entry by entry and in the same order, whatever store it is loaded into.
C10_RoundTripRestoresStore ==
    roundTrip.done =>
        /\ roundTrip.restored.conversations = roundTrip.original.conversations
        /\ roundTrip.restored.relationships = roundTrip.original.relationships
        /\ roundTrip.restored.shortTermMemory = roundTrip.original.shortTermMemory
        /\ roundTrip.restored.longTermMemory = roundTrip.original.longTermMemory

\* C10 witness: a store holding a record in each tier, a conversation and a
\* relationship has been restored into a store that held other contents
C10_Witness ==
    /\ roundTrip.done
    /\ roundTrip.target = UsedStore
    /\ Len(roundTrip.original.shortTermMemory.keys) > 0
    /\ Len(roundTrip.original.longTermMemory.keys) > 0
    /\ Len(roundTrip.original.conversations) > 0
    /\ Len(roundTrip.original.relationships.keys) > 0
    /\ roundTrip.original # UsedStore
    /\ roundTrip.restored # UsedStore

-----------------------------------------------------------------------------
(* SpecCapacity: one AgentMemory constructed with a small maxMemories, filled
   beyond it and cleaned up *)

SmallMaxMemories == 2
MaxCapacitySteps == 5
MaxCapacityRetrievals == 1

\* the game time handed to update, in units of time: 30 seconds, or 9 minutes
CapacityDecayInputs == {1, 18}

\* What the trailing maybeCleanup of a call leaves of the store the call has
\* built, with the record of the cleanup if it ran
CleanedUp(built, due) ==
    /\ agentMemory' \in MaybeCleanup(built, due)
    /\ lastCleanup' = IF due THEN [ran |-> TRUE, before |-> built, after |-> agentMemory']
                      ELSE lastCleanup

\* memory.store(key, data, importance) with an importance below HIGH
StoreRecord ==
    /\ memorySteps < MaxCapacitySteps
    /\ \E importance \in {ImportanceTrivial, ImportanceNormal}, due \in BOOLEAN :
         \E built \in StoreMemory(agentMemory, memorySteps,
                                  "fact_" \o NumberToString(memorySteps), "seen",
                                  importance, "fact", FALSE) :
            CleanedUp(built, due)
    /\ memorySteps' = memorySteps + 1
    /\ UNCHANGED <<configVars, chatVars, engineVars, personaVars, lastCall, roundTrip, retrievals,
                   storage, storeError>>

\* The clock moves on and memory.update(deltaTime) runs
Tick ==
    /\ memorySteps < MaxCapacitySteps
    /\ \E deltaTime \in CapacityDecayInputs, due \in BOOLEAN :
         \E built \in UpdateStore([agentMemory EXCEPT !.now = @ + deltaTime],
                                  deltaTime, FALSE) :
            CleanedUp(built, due)
    /\ memorySteps' = memorySteps + 1
    /\ UNCHANGED <<configVars, chatVars, engineVars, personaVars, lastCall, roundTrip, retrievals,
                   storage, storeError>>

\* memory.retrieve(key)
RetrieveRecord ==
    /\ retrievals < MaxCapacityRetrievals
    /\ \E key \in DOMAIN agentMemory.shortTermMemory.get :
         agentMemory' = RetrieveMemory(agentMemory, key)
    /\ retrievals' = retrievals + 1
    /\ UNCHANGED <<configVars, chatVars, engineVars, personaVars, roundTrip, memorySteps,
                   saveVars>>

NextCapacity ==
    \/ StoreRecord
    \/ Tick
    \/ RetrieveRecord

InitSpecCapacity ==
    /\ InitConfig /\ InitEngine /\ InitChatIdle /\ InitPersonaIdle
    /\ agentMemory = NewStoreWith([maxMemories |-> SmallMaxMemories, maxConversations |-> 0])
    /\ roundTrip = NoRoundTrip
    /\ memorySteps = 0
    /\ retrievals = 0
    /\ storage = NoSave
    /\ storeError = FALSE
    /\ lastCleanup = NoCleanup
    /\ lastCall = NoOperation

SpecCapacity == InitSpecCapacity /\ [][NextCapacity]_vars

\* The keys of the short-term tier
ShortTermKeys(s) == DOMAIN s.shortTermMemory.get

\* The score cleanup sorted the record by
ScoreAtCleanup(key) ==
    CalculateMemoryScore(lastCleanup.before.shortTermMemory.get[key], lastCleanup.before.now)

\* C16 as stated: after a cleanup of a short-term tier that held more than
\* maxMemories records, the tier holds at most maxMemories records and every
\* retained record scores at least as high as every record the cleanup
\* removed.
C16_RetainedOutscoreRemoved ==
    (lastCleanup.ran
     /\ Cardinality(ShortTermKeys(lastCleanup.before)) > lastCleanup.before.maxMemories) =>
        /\ Cardinality(ShortTermKeys(lastCleanup.after)) <= lastCleanup.after.maxMemories
        /\ \A kept \in ShortTermKeys(lastCleanup.after),
              removed \in ShortTermKeys(lastCleanup.before) \ ShortTermKeys(lastCleanup.after) :
                ScoreAtCleanup(kept) >= ScoreAtCleanup(removed)

\* C16 amended: after any cleanup the short-term tier holds at most
\* maxMemories records; the records of strength below 0.1 are removed whatever
\* their score, and among the others every retained record scores at least as
\* high as every evicted one.
C16_RetainedOutscoreEvicted ==
    lastCleanup.ran =>
        /\ Cardinality(ShortTermKeys(lastCleanup.after)) <= lastCleanup.after.maxMemories
        /\ \A key \in ShortTermKeys(lastCleanup.before) :
             lastCleanup.before.shortTermMemory.get[key].strength < 10 =>
                key \notin ShortTermKeys(lastCleanup.after)
        /\ \A kept \in ShortTermKeys(lastCleanup.after),
              evicted \in {key \in ShortTermKeys(lastCleanup.before)
                                      \ ShortTermKeys(lastCleanup.after) :
                             lastCleanup.before.shortTermMemory.get[key].strength >= 10} :
                ScoreAtCleanup(kept) >= ScoreAtCleanup(evicted)

\* C16 witness: a cleanup has evicted a record that was not weak, from a tier
\* that held more than maxMemories such records, and left the tier full
C16_Witness ==
    /\ lastCleanup.ran
    /\ \E evicted \in ShortTermKeys(lastCleanup.before) \ ShortTermKeys(lastCleanup.after) :
         /\ lastCleanup.before.shortTermMemory.get[evicted].strength >= 10
         /\ \E kept \in ShortTermKeys(lastCleanup.after) :
              ScoreAtCleanup(kept) > ScoreAtCleanup(evicted)
    /\ Cardinality(ShortTermKeys(lastCleanup.after)) = lastCleanup.after.maxMemories

-----------------------------------------------------------------------------
(* SpecLog: one AgentMemory constructed with a small maxConversations, and the
   conversations added to it *)

SmallMaxConversations == 2
MaxLogSteps == 3

\* The names of the senders: the player, and a sender without a name
SenderNames == {"Player", ""}

\* participant.name || 'Unknown'
ParticipantName(name) == IF name # "" THEN name ELSE "Unknown"

\* memory.addConversation(sender, message, type); the conversation's id is
\* twice the number of conversations added before
LogConversation ==
    /\ memorySteps < MaxLogSteps
    /\ \E name \in SenderNames, message \in StoreMessages, type \in {"received", "sent"},
          due \in BOOLEAN :
         /\ agentMemory' \in AddConversationTo(agentMemory, 2 * memorySteps,
                                               ParticipantName(name), message, type, due)
         /\ storeError' = AddConversationThrows(agentMemory, ParticipantName(name), message)
    /\ memorySteps' = memorySteps + 1
    /\ UNCHANGED <<configVars, chatVars, engineVars, personaVars, lastCall, storage, roundTrip,
                   retrievals, lastCleanup>>

NextLog == LogConversation

InitSpecLog ==
    /\ InitConfig /\ InitEngine /\ InitChatIdle /\ InitPersonaIdle
    /\ agentMemory = NewStoreWith([maxMemories |-> 0, maxConversations |-> SmallMaxConversations])
    /\ roundTrip = NoRoundTrip
    /\ memorySteps = 0
    /\ retrievals = 0
    /\ storage = NoSave
    /\ storeError = FALSE
    /\ lastCleanup = NoCleanup
    /\ lastCall = NoOperation

SpecLog == InitSpecLog /\ [][NextLog]_vars

\* C17: after any number of addConversation calls the log holds at most
\* maxConversations entries, and they are the most recently added ones in the
\* order they were added: with n calls so far and k entries held, the entries
\* are those of calls n - k + 1 .. n, and k is n or maxConversations.
C17_LogHoldsMostRecent ==
    \E held \in {Len(agentMemory.conversations)} :
        /\ held <= agentMemory.maxConversations
        /\ held = Min(memorySteps, agentMemory.maxConversations)
        /\ \A i \in 1..held :
             agentMemory.conversations[i].id = 2 * (memorySteps - held + i - 1)

\* C17 witness: more conversations have been added than the log holds
C17_Witness ==
    /\ memorySteps > agentMemory.maxConversations
    /\ Len(agentMemory.conversations) = agentMemory.maxConversations

\* C19: an addConversation call for a participant name that has no
\* Relationship Record adds exactly one record, under that name and with
\* totalInteractions = 1, and leaves the records of the other names as they
\* are.
C19_FirstConversationCreatesRelationship ==
    [][LogConversation =>
         \E name \in {agentMemory'.conversations[Len(agentMemory'.conversations)].participant} :
            ~MapHas(agentMemory.relationships, name) =>
                /\ DOMAIN agentMemory'.relationships.get
                     = DOMAIN agentMemory.relationships.get \cup {name}
                /\ agentMemory'.relationships.keys = Append(agentMemory.relationships.keys, name)
                /\ agentMemory'.relationships.get[name].name = name
                /\ agentMemory'.relationships.get[name].totalInteractions = 1
                /\ \A other \in DOMAIN agentMemory.relationships.get :
                     agentMemory'.relationships.get[other] = agentMemory.relationships.get[other]
    ]_vars

\* C19 witness: the player and a nameless sender have each a record, the one
\* created last with a single interaction
C19_Witness ==
    /\ agentMemory.relationships.keys = <<"Player", "Unknown">>
    /\ agentMemory.relationships.get["Player"].totalInteractions = 2
    /\ agentMemory.relationships.get["Unknown"].totalInteractions = 1

-----------------------------------------------------------------------------
(* SpecSave: one AgentMemory whose snapshot is written to the browser's
   storage and read back into the running game *)

\* GamePersistence.saveGame: createSaveData takes memory.serialize() and
\* writeToStorage puts its JSON text under the save key
SaveGame ==
    /\ storage' = JSONStringify(Serialize(agentMemory))
    /\ UNCHANGED <<configVars, chatVars, engineVars, personaVars, lastCall, agentMemory, roundTrip,
                   memorySteps, retrievals, storeError, lastCleanup>>

\* applySaveData: agent.aiAgent.deserialize(agentData.aiAgent). What the
\* engine's serialize reads is not changed between the save and the load
\* (the exchanges followed with the store are answered by the fallback path),
\* so the saved data is the serialize() of the engine as it is.
LoadEngine ==
    /\ aiAgent' = DeserializeAIAgent(aiAgent, SerializeAIAgent(aiAgent))
    /\ UNCHANGED <<apiEndpoint, apiKey, aiConfig>>

\* GamePersistence.loadGame: readFromStorage parses the text and applySaveData
\* hands it to the deserialize of the running agent's memory and of its engine
LoadGame ==
    /\ storage # NoSave
    /\ agentMemory' = Deserialize(agentMemory, JSONParse(storage))
    /\ LoadEngine
    /\ UNCHANGED <<chatVars, engineVars, personaVars, lastCall, roundTrip, memorySteps,
                   retrievals, storage, storeError, lastCleanup>>

\* The fields of a memory snapshot that hold the store's contents
SnapshotFields == {"shortTermMemory", "longTermMemory", "conversations",
                   "relationships", "facts"}

\* A snapshot that has lost some of its fields
Without(data, missing) == [field \in DOMAIN data \ missing |-> data[field]]

\* loadGame when the saved text lacks some fields of the memory snapshot
LoadCorruptGame ==
    /\ ~roundTrip.done
    /\ storage # NoSave
    /\ \E missing \in SUBSET SnapshotFields \ {{}} :
         \E restored \in {Deserialize(agentMemory, Without(JSONParse(storage), missing))} :
            /\ agentMemory' = restored
            /\ roundTrip' = [done |-> TRUE, missing |-> missing, restored |-> restored]
    /\ LoadEngine
    /\ UNCHANGED <<chatVars, engineVars, personaVars, lastCall, memorySteps,
                   retrievals, storage, storeError, lastCleanup>>

NextSave ==
    \/ Converse
    \/ SaveGame
    \/ LoadGame
    \/ LoadCorruptGame

InitSpecSave ==
    InitConfig /\ InitEngine /\ InitChatIdle /\ InitPersonaIdle /\ InitStoreIdle

SpecSave == InitSpecSave /\ [][NextSave]_vars

\* C11: after the snapshot has been written to storage as JSON text, read
\* back and deserialized, sharedTopics behaves as a Set again: no
\* addConversation call with an already-known participant fails when it merges
\* the topics of its message.
C11_SetsSurviveStorage == ~storeError

\* C13: after deserialize has been applied to a snapshot that lacks some of
\* its fields, each missing field of the store is at its empty default: an
\* empty tier, an empty conversation log, an empty relationship map.
C13_MissingFieldsAreEmpty ==
    roundTrip.done =>
        \A field \in roundTrip.missing : roundTrip.restored[field] = NewStore[field]

-----------------------------------------------------------------------------
(* SpecExchange: the exchanges of one persona with the player, on the
   persona's AgentMemory, in a game that is saved and loaded *)

MaxExchangeSteps == 4

\* The persona whose memory agentMemory is
ExchangeAgent == "tiberius"

\* What generateResponse resolves to: an AI reply or a fallback string
ExchangeReplies == {"Indeed.", "Could you rephrase that?"}

\* handlePlayerMessage -> receiveMessage up to the await:
\* memory.addConversation(sender, message, 'received'). When the call throws,
\* receiveMessage rejects, handlePlayerMessage's catch shows its own line and
\* the chat stops waiting.
ExchangeBegins ==
    /\ ~isWaitingForResponse
    /\ memorySteps < MaxExchangeSteps
    /\ \E message \in StoreMessages, due \in BOOLEAN :
         /\ agentMemory' \in AddConversationTo(agentMemory, 2 * memorySteps, "Player", message,
                                               "received", due)
         /\ storeError' = AddConversationThrows(agentMemory, "Player", message)
         /\ isWaitingForResponse' = ~AddConversationThrows(agentMemory, "Player", message)
    /\ messageHistory' = AddMessage(messageHistory, "player", "Player")
    /\ conversationLog' = [conversationLog EXCEPT ![ExchangeAgent] = Append(@, "received")]
    /\ memorySteps' = memorySteps + 1
    /\ UNCHANGED <<configVars, engineVars, personaVars, lastCall, isOpen, currentAgent, isPaused,
                   isInConversation, memoryUpdates, inflight, sentCount, storage, roundTrip,
                   retrievals, lastCleanup>>

\* receiveMessage after the await: memory.addConversation(sender, response,
\* 'sent'), and handleAgentResponse -> setWaitingState(false)
ExchangeEnds ==
    /\ isWaitingForResponse
    /\ \E response \in ExchangeReplies, due \in BOOLEAN :
         /\ agentMemory' \in AddConversationTo(agentMemory, 2 * memorySteps, "Player", response,
                                               "sent", due)
         /\ storeError' = AddConversationThrows(agentMemory, "Player", response)
    /\ conversationLog' = [conversationLog EXCEPT ![ExchangeAgent] = Append(@, "sent")]
    /\ isWaitingForResponse' = FALSE
    /\ messageHistory' =
         AddMessage(messageHistory, "agent", AgentName(ExchangeAgent))
    /\ memorySteps' = memorySteps + 1
    /\ UNCHANGED <<configVars, engineVars, personaVars, lastCall, isOpen, currentAgent, isPaused,
                   isInConversation, memoryUpdates, inflight, sentCount, storage, roundTrip,
                   retrievals, lastCleanup>>

NextExchange ==
    \/ ExchangeBegins
    \/ ExchangeEnds
    \/ SaveGame
    \/ LoadGame

InitSpecExchange ==
    InitConfig /\ InitEngine /\ InitChatIdle /\ InitPersonaIdle /\ InitStoreIdle

SpecExchange == InitSpecExchange /\ [][NextExchange]_vars

\* The number of entries of one type appended to a persona's log so far
Appended(a, type) ==
    Cardinality({i \in 1..Len(conversationLog[a]) : conversationLog[a][i] = type})

\* C18: whenever no response of the persona is pending, as many 'sent' entries
\* as 'received' entries have been appended to its conversation log.
C18_ReceivedAndSentPaired ==
    ~isWaitingForResponse =>
        Appended(ExchangeAgent, "received") = Appended(ExchangeAgent, "sent")

-----------------------------------------------------------------------------
(* SpecQuery: the operations of one AgentMemory of small capacity, called one
   after the other, each with what it was given and what it returned *)

MaxQuerySteps == 3
QueryMaxMemories == 1

QueryKeys == {"met_player", "rumour"}
QueryNames == {"Player", "Stranger"}

\* the game time handed to update, in units of time: 30 seconds, or 9 minutes
QueryDecayInputs == {1, 18}

\* memory.store(key, data, importance)
CallStore ==
    /\ memorySteps < MaxQuerySteps
    /\ \E key \in QueryKeys,
          importance \in {ImportanceLow, ImportanceNormal, ImportanceHigh},
          due \in BOOLEAN :
         \E after \in StoreMemory(agentMemory, 2 * memorySteps, key, "seen at the library",
                                  importance, "fact", due) :
            /\ agentMemory' = after
            /\ lastCall' = [op |-> "store", key |-> key, importance |-> importance,
                            due |-> due,
                            memory |-> NewRecord(agentMemory, 2 * memorySteps, key,
                                                 "seen at the library", importance, "fact"),
                            before |-> agentMemory, after |-> after,
                            result |-> 2 * memorySteps]
    /\ memorySteps' = memorySteps + 1
    /\ UNCHANGED <<configVars, chatVars, engineVars, personaVars, roundTrip, retrievals,
                   storage, storeError, lastCleanup>>

\* memory.retrieve(key, strengthenMemory)
CallRetrieve ==
    /\ memorySteps < MaxQuerySteps
    /\ \E key \in QueryKeys, strengthenMemory \in BOOLEAN :
         \E after \in {Retrieve(agentMemory, key, strengthenMemory)} :
            /\ agentMemory' = after
            /\ lastCall' = [op |-> "retrieve", key |-> key,
                            strengthenMemory |-> strengthenMemory,
                            before |-> agentMemory, after |-> after,
                            result |-> RetrieveResult(agentMemory, key),
                            emitted |-> RetrieveEmits(agentMemory, key)]
    /\ memorySteps' = memorySteps + 1
    /\ UNCHANGED <<configVars, chatVars, engineVars, personaVars, roundTrip, retrievals,
                   storage, storeError, lastCleanup>>

\* memory.forget(key)
CallForget ==
    /\ memorySteps < MaxQuerySteps
    /\ \E key \in QueryKeys :
         \E after \in {ForgetMemory(agentMemory, key)} :
            /\ agentMemory' = after
            /\ lastCall' = [op |-> "forget", key |-> key,
                            before |-> agentMemory, after |-> after,
                            result |-> ForgetResult(agentMemory, key),
                            emitted |-> ForgetEmits(agentMemory, key)]
    /\ memorySteps' = memorySteps + 1
    /\ UNCHANGED <<configVars, chatVars, engineVars, personaVars, roundTrip, retrievals,
                   storage, storeError, lastCleanup>>

\* memory.addConversation(player, message, 'received')
CallAddConversation ==
    /\ memorySteps < MaxQuerySteps
    /\ \E message \in StoreMessages, due \in BOOLEAN :
         \E after \in AddConversationTo(agentMemory, 2 * memorySteps, "Player", message,
                                        "received", due) :
            /\ agentMemory' = after
            /\ storeError' = AddConversationThrows(agentMemory, "Player", message)
            /\ lastCall' = [op |-> "addConversation", name |-> "Player",
                            message |-> message, due |-> due,
                            before |-> agentMemory, after |-> after,
                            result |-> 2 * memorySteps]
    /\ memorySteps' = memorySteps + 1
    /\ UNCHANGED <<configVars, chatVars, engineVars, personaVars, roundTrip, retrievals,
                   storage, lastCleanup>>

\* The clock moves on and memory.update(deltaTime) runs
CallUpdate ==
    /\ memorySteps < MaxQuerySteps
    /\ \E deltaTime \in QueryDecayInputs, due \in BOOLEAN :
         \E after \in UpdateStore([agentMemory EXCEPT !.now = @ + deltaTime], deltaTime, due) :
            /\ agentMemory' = after
            /\ lastCall' = [op |-> "update", deltaTime |-> deltaTime, due |-> due,
                            before |-> agentMemory, after |-> after]
    /\ memorySteps' = memorySteps + 1
    /\ UNCHANGED <<configVars, chatVars, engineVars, personaVars, roundTrip, retrievals,
                   storage, storeError, lastCleanup>>

\* memory.getRelationship(participantName)
CallGetRelationship ==
    /\ memorySteps < MaxQuerySteps
    /\ \E name \in QueryNames :
         lastCall' = [op |-> "getRelationship", name |-> name,
                      before |-> agentMemory, after |-> agentMemory,
                      result |-> GetRelationship(agentMemory, name),
                      emitted |-> <<>>]
    /\ memorySteps' = memorySteps + 1
    /\ UNCHANGED <<configVars, chatVars, engineVars, personaVars, agentMemory, roundTrip,
                   retrievals, storage, storeError, lastCleanup>>

\* memory.getConversationsWith(participantName), limit = 10
CallGetConversationsWith ==
    /\ memorySteps < MaxQuerySteps
    /\ \E name \in QueryNames :
         lastCall' = [op |-> "getConversationsWith", name |-> name,
                      before |-> agentMemory, after |-> agentMemory,
                      result |-> ConversationsWith(agentMemory, name, 10),
                      emitted |-> <<>>]
    /\ memorySteps' = memorySteps + 1
    /\ UNCHANGED <<configVars, chatVars, engineVars, personaVars, agentMemory, roundTrip,
                   retrievals, storage, storeError, lastCleanup>>

NextQuery ==
    \/ CallStore
    \/ CallRetrieve
    \/ CallForget
    \/ CallAddConversation
    \/ CallUpdate
    \/ CallGetRelationship
    \/ CallGetConversationsWith

InitSpecQuery ==
    /\ InitConfig /\ InitEngine /\ InitChatIdle /\ InitPersonaIdle
    /\ agentMemory = NewStoreWith([maxMemories |-> QueryMaxMemories, maxConversations |-> 0])
    /\ roundTrip = NoRoundTrip
    /\ memorySteps = 0
    /\ retrievals = 0
    /\ storage = NoSave
    /\ storeError = FALSE
    /\ lastCleanup = NoCleanup
    /\ lastCall = NoOperation

SpecQuery == InitSpecQuery /\ [][NextQuery]_vars

\* Whether the store holds a record under the key, in either tier
HasMemoryOf(s, key) == MapHas(s.shortTermMemory, key) \/ MapHas(s.longTermMemory, key)

\* The last call was a query for something the store does not hold
UnknownQuery ==
    \/ lastCall.op \in {"retrieve", "forget"} /\ ~HasMemoryOf(lastCall.before, lastCall.key)
    \/ lastCall.op = "getRelationship" /\ ~MapHas(lastCall.before.relationships, lastCall.name)
    \/ /\ lastCall.op = "getConversationsWith"
       /\ \A i \in 1..Len(lastCall.before.conversations) :
            lastCall.before.conversations[i].participant # lastCall.name

\* What the query for something unknown returned, getRelationship giving the
\* value named
UnknownQueryReturns(noRelationship) ==
    CASE lastCall.op = "retrieve" -> lastCall.result = JSNull
      [] lastCall.op = "forget" -> lastCall.result = FALSE
      [] lastCall.op = "getRelationship" -> lastCall.result = noRelationship
      [] lastCall.op = "getConversationsWith" -> lastCall.result = <<>>

\* C23 as stated: a query with an unknown key or participant returns null
\* (retrieve, getRelationship), false (forget) or an empty sequence
\* (getConversationsWith), leaves the store as it was and emits no event.
C23_UnknownQueriesGiveNull ==
    UnknownQuery =>
        /\ UnknownQueryReturns(JSNull)
        /\ lastCall.after = lastCall.before
        /\ lastCall.emitted = <<>>

\* C23, amended: as above, with getRelationship returning undefined for an
\* unknown participant.
C23_UnknownQueriesGiveEmpty ==
    UnknownQuery =>
        /\ UnknownQueryReturns(JSUndefined)
        /\ lastCall.after = lastCall.before
        /\ lastCall.emitted = <<>>

\* C23 witness: a store that knows the player is asked for a stranger
C23_Witness ==
    /\ lastCall.op = "getRelationship"
    /\ lastCall.name = "Stranger"
    /\ MapHas(lastCall.before.relationships, "Player")
    /\ HasMemoryOf(lastCall.before, "conversation_0")

Strengthened(memory) ==
    [memory EXCEPT !.accessCount = @ + 1,
                   !.strength = IF @ + 10 > 100 THEN 100 ELSE @ + 10]

\* C25: retrieve(key, strengthen) answers from the short-term tier when it has
\* the key and otherwise from the long-term tier; on a hit with strengthen =
\* true exactly that record has its accessCount raised by 1 and its strength
\* by 0.1, not beyond 1; with strengthen = false, and on a miss, the store is
\* as it was.
C25_RetrieveStrengthensTheHit ==
    lastCall.op = "retrieve" =>
        IF MapHas(lastCall.before.shortTermMemory, lastCall.key)
        THEN /\ lastCall.result = JSData(lastCall.before.shortTermMemory.get[lastCall.key].data)
             /\ lastCall.after =
                  IF lastCall.strengthenMemory
                  THEN [lastCall.before EXCEPT
                          !.shortTermMemory.get[lastCall.key] = Strengthened(@)]
                  ELSE lastCall.before
        ELSE IF MapHas(lastCall.before.longTermMemory, lastCall.key)
        THEN /\ lastCall.result = JSData(lastCall.before.longTermMemory.get[lastCall.key].data)
             /\ lastCall.after =
                  IF lastCall.strengthenMemory
                  THEN [lastCall.before EXCEPT
                          !.longTermMemory.get[lastCall.key] = Strengthened(@)]
                  ELSE lastCall.before
        ELSE lastCall.result = JSNull /\ lastCall.after = lastCall.before

\* C25 witness: a decayed short-term record has been retrieved with
\* strengthen = true and has gained 0.1 without reaching 1
C25_Witness ==
    /\ lastCall.op = "retrieve"
    /\ lastCall.strengthenMemory
    /\ MapHas(lastCall.before.shortTermMemory, lastCall.key)
    /\ lastCall.before.shortTermMemory.get[lastCall.key].strength = 10
    /\ lastCall.after.shortTermMemory.get[lastCall.key].strength = 20
    /\ lastCall.after.shortTermMemory.get[lastCall.key].accessCount = 1

\* C26: forget(key) removes the key from both tiers, leaves every other record
\* as it was, and returns true exactly when the key was in at least one tier;
\* a retrieve(key) after it returns null.
C26_ForgetRemovesFromBothTiers ==
    lastCall.op = "forget" =>
        /\ lastCall.result = (\/ lastCall.key \in DOMAIN lastCall.before.shortTermMemory.get
                              \/ lastCall.key \in DOMAIN lastCall.before.longTermMemory.get)
        /\ lastCall.key \notin DOMAIN lastCall.after.shortTermMemory.get
        /\ lastCall.key \notin DOMAIN lastCall.after.longTermMemory.get
        /\ \A tier \in {"shortTermMemory", "longTermMemory"} :
             /\ DOMAIN lastCall.after[tier].get = DOMAIN lastCall.before[tier].get \ {lastCall.key}
             /\ \A key \in DOMAIN lastCall.after[tier].get :
                  lastCall.after[tier].get[key] = lastCall.before[tier].get[key]
        /\ RetrieveResult(lastCall.after, lastCall.key) = JSNull

\* C26 witness: a key held by both tiers has been forgotten
C26_Witness ==
    /\ lastCall.op = "forget"
    /\ lastCall.result
    /\ MapHas(lastCall.before.shortTermMemory, lastCall.key)
    /\ MapHas(lastCall.before.longTermMemory, lastCall.key)
    /\ ~HasMemoryOf(lastCall.after, lastCall.key)

\* C27: every conversation entry whose computed importance is NORMAL or higher
\* has its derived Memory Record: under the key made of the entry's id, of
\* category conversation, with the entry as data and the entry's importance,
\* in the tier that importance selects. (No record is forgotten and none
\* decays in the exchanges followed, so the record of every entry of the log
\* is still there.)
C27_ImportantConversationsAreStored ==
    \A i \in 1..Len(agentMemory.conversations) :
        \E c \in {agentMemory.conversations[i]} :
            c.importance >= ImportanceNormal =>
                \E tier \in {IF c.importance >= ImportanceHigh
                             THEN agentMemory.longTermMemory
                             ELSE agentMemory.shortTermMemory} :
                    \E key \in {"conversation_" \o NumberToString(c.id)} :
                        /\ MapHas(tier, key)
                        /\ tier.get[key].data = c
                        /\ tier.get[key].category = "conversation"
                        /\ tier.get[key].importance = c.importance

-----------------------------------------------------------------------------
(* SpecRelationship: the player's Relationship Record over the conversations
   of a long session, warm, cold or mixed *)

PriorCalls == 27
MaxRelationshipCalls == 3

RelationshipMessages == {WarmMessage, ColdMessage, "Hi"}

\* The store after n addConversation calls with the same message
RECURSIVE EarlierConversations(_, _)
EarlierConversations(n, message) ==
    IF n = 0 THEN NewStore
    ELSE CHOOSE after \in AddConversationTo(EarlierConversations(n - 1, message), 2 * (n - 1),
                                            "Player", message, "received", FALSE) : TRUE

\* memory.addConversation(player, message, 'received'), which calls
\* updateRelationship once
CallUpdateRelationship ==
    /\ retrievals < MaxRelationshipCalls
    /\ \E message \in RelationshipMessages :
         \E after \in AddConversationTo(agentMemory, 2 * memorySteps, "Player", message,
                                        "received", FALSE) :
            /\ agentMemory' = after
            /\ storeError' = AddConversationThrows(agentMemory, "Player", message)
            /\ lastCall' = [op |-> "updateRelationship", name |-> "Player",
                            sentiment |-> AnalysisOf(message)[3],
                            before |-> agentMemory.relationships,
                            after |-> after.relationships]
    /\ memorySteps' = memorySteps + 1
    /\ retrievals' = retrievals + 1
    /\ UNCHANGED <<configVars, chatVars, engineVars, personaVars, roundTrip, storage,
                   lastCleanup>>

NextRelationship == CallUpdateRelationship

InitSpecRelationship ==
    /\ InitConfig /\ InitEngine /\ InitChatIdle /\ InitPersonaIdle
    /\ \E n \in 0..PriorCalls, message \in {WarmMessage, ColdMessage} :
         /\ agentMemory = EarlierConversations(n, message)
         /\ memorySteps = n
    /\ roundTrip = NoRoundTrip
    /\ retrievals = 0
    /\ storage = NoSave
    /\ storeError = FALSE
    /\ lastCleanup = NoCleanup
    /\ lastCall = NoOperation

SpecRelationship == InitSpecRelationship /\ [][NextRelationship]_vars

\* The record updateRelationship starts from: the one the map has, or the new
\* one it sets
RelationshipBefore ==
    IF MapHas(lastCall.before, lastCall.name) THEN lastCall.before.get[lastCall.name]
    ELSE [trustLevel |-> 50, totalInteractions |-> 0, sentimentHistory |-> <<>>]

\* The sign of (average of the scores - threshold), for the thresholds +0.2
\* and -0.2: 1 above the positive one, -1 below the negative one, else 0
AverageAgainstThresholds(scores) ==
    IF SumOf(scores) > 2 * Len(scores) THEN 1
    ELSE IF SumOf(scores) < -2 * Len(scores) THEN -1 ELSE 0

\* What an updateRelationship call did to the counters and the history, and
\* whether the trust level is the old one moved by the step named
RelationshipUpdated(trustAfter(_, _)) ==
    lastCall.op = "updateRelationship" =>
        \E old \in {RelationshipBefore}, new \in {lastCall.after.get[lastCall.name]} :
            /\ new.totalInteractions = old.totalInteractions + 1
            /\ \E pushed \in {Append(old.sentimentHistory, lastCall.sentiment)} :
                 new.sentimentHistory =
                     SubSeq(pushed, Max(1, Len(pushed) - 19), Len(pushed))
            /\ Len(new.sentimentHistory) <= 20
            /\ new.trustLevel =
                 trustAfter(old.trustLevel, 2 * AverageAgainstThresholds(new.sentimentHistory))

\* the trust level moved by the step
Stepped(trustLevel, step) == trustLevel + step

\* the trust level moved by the step, kept within [0, 100]
SteppedWithinRange(trustLevel, step) ==
    IF trustLevel + step > 100 THEN 100 ELSE IF trustLevel + step < 0 THEN 0
    ELSE trustLevel + step

\* C28 as stated: each updateRelationship call adds 1 to totalInteractions,
\* appends the sentiment keeping the 20 most recent scores, and moves
\* trustLevel by exactly one step of 2: up when the average of the retained
\* scores is above 0.2, down when it is below -0.2, not at all otherwise.
C28_TrustMovesOneStep == RelationshipUpdated(Stepped)

\* C28, amended: as above, the trust level moving by one step of 2 but not
\* beyond 0 or 100.
C28_TrustMovesOneStepWithinRange == RelationshipUpdated(SteppedWithinRange)

\* C28 witness: a call on a record with a full history whose trust level is
\* at the top; the oldest score has gone and the trust level has stayed
C28_Witness ==
    /\ lastCall.op = "updateRelationship"
    /\ MapHas(lastCall.before, lastCall.name)
    /\ Len(lastCall.before.get[lastCall.name].sentimentHistory) = 20
    /\ lastCall.before.get[lastCall.name].trustLevel = 100
    /\ lastCall.after.get[lastCall.name].trustLevel = 100
    /\ AverageAgainstThresholds(lastCall.after.get[lastCall.name].sentimentHistory) = 1

-----------------------------------------------------------------------------
(* SpecAnalysis: calculateMessageImportance and analyzeSentiment applied to
   messages put together from phrases that carry the listed words *)

MaxPhrases == 3

Phrases ==
    {"Thank you, that is good, great, awesome, wonderful and excellent news for us. ",
     "I love it and I like it, I am so happy and so pleased about all of this. ",
     "A bad, terrible, awful and horrible day: I HATE it, I am sad, angry, upset and disappointed. ",
     "I dislike it. ",
     "Is the secret quest for the treasure an important problem? Help! "}

\* The player goes on typing: one more phrase on the message
ComposeMessage ==
    /\ lastCall.op = "compose"
    /\ lastCall.phrases < MaxPhrases
    /\ \E phrase \in Phrases :
         lastCall' = [op |-> "compose", message |-> lastCall.message \o phrase,
                      phrases |-> lastCall.phrases + 1]
    /\ UNCHANGED <<configVars, chatVars, engineVars, personaVars, agentMemory, roundTrip,
                   memorySteps, retrievals, storage, storeError, lastCleanup>>

\* addConversation's two calls on the message: calculateMessageImportance
\* and analyzeSentiment
AnalyseMessage ==
    /\ lastCall.op = "compose"
    /\ lastCall' = [op |-> "analyse", message |-> lastCall.message,
                    length |-> Len(lastCall.message),
                    importance |-> CalculateMessageImportance(lastCall.message),
                    sentiment |-> AnalyzeSentiment(lastCall.message)]
    /\ UNCHANGED <<configVars, chatVars, engineVars, personaVars, agentMemory, roundTrip,
                   memorySteps, retrievals, storage, storeError, lastCleanup>>

NextAnalysis == ComposeMessage \/ AnalyseMessage

InitSpecAnalysis ==
    /\ InitConfig /\ InitEngine /\ InitChatIdle /\ InitPersonaIdle
    /\ agentMemory = NewStore
    /\ roundTrip = NoRoundTrip
    /\ memorySteps = 0
    /\ retrievals = 0
    /\ storage = NoSave
    /\ storeError = FALSE
    /\ lastCleanup = NoCleanup
    /\ lastCall = [op |-> "compose", message |-> "", phrases |-> 0]

SpecAnalysis == InitSpecAnalysis /\ [][NextAnalysis]_vars

\* C29: for every message the computed importance is within [NORMAL,
\* CRITICAL] and the computed sentiment (in tenths) is within [-1, 1].
C29_ImportanceAndSentimentInRange ==
    lastCall.op = "analyse" =>
        /\ ImportanceNormal <= lastCall.importance
        /\ lastCall.importance <= ImportanceCritical
        /\ -10 <= lastCall.sentiment
        /\ lastCall.sentiment <= 10

\* C29 witness: a message longer than 200 characters with a question mark,
\* a flagged word and all ten positive words; the importance is CRITICAL and
\* the sentiment is 1
C29_Witness ==
    /\ lastCall.op = "analyse"
    /\ lastCall.length > 200
    /\ lastCall.importance = ImportanceCritical
    /\ lastCall.sentiment = 10
    /\ Includes(Chars(lastCall.message), "?")
    /\ LowerIncludes(lastCall.message, "secret")

-----------------------------------------------------------------------------
(* SpecFallback: generateResponse on an engine without configuration, which
   answers with generateFallbackResponse *)

FallbackMessages ==
    {"", "Hi", "ok", "...", "Bye", "Hello, I must go now. See you later!",
     "Tell me about the exit", "What do you sell?"}

\* generateResponse(message, context) takes the else branch
FallbackResponse ==
    /\ \E a \in Agents, message \in FallbackMessages :
         /\ ~Configured(a)
         /\ \E reply \in UnconfiguredReplies(a, message) :
              lastCall' = [op |-> "generateFallbackResponse", agent |-> a,
                           message |-> message, reply |-> reply]
    /\ UNCHANGED <<configVars, chatVars, engineVars, personaVars, agentMemory, roundTrip,
                   memorySteps, retrievals, storage, storeError, lastCleanup>>

NextFallback == FallbackResponse

InitSpecFallback ==
    InitConfig /\ InitEngine /\ InitChatIdle /\ InitPersonaIdle /\ InitStoreIdle

SpecFallback == InitSpecFallback /\ [][NextFallback]_vars

\* The reply categories in the order generateFallbackResponse tries them
FallbackCategories == <<"greeting", "goodbye", "confused", "busy", "personality">>

\* Whether the category's condition holds for the message; roll stands for
\* Math.random() < 0.1
CategoryMatches(a, message, category, roll) ==
    CASE category = "greeting" -> IsGreeting(message)
      [] category = "goodbye" -> IsGoodbye(message)
      [] category = "confused" ->
            Len(message) < 3 \/ \A i \in 1..Len(message) : ~IsLetter(ToLowerCase(message)[i])
      [] category = "busy" -> "busy" \in AIPersonality(a) /\ roll
      [] category = "personality" -> TRUE

\* The candidate strings of a category
CategoryCandidates(a, category) ==
    IF category = "personality" THEN GeneratePersonalityResponse(a)
    ELSE FallbackPool(a, category)

\* The first category, in the order, whose condition holds
FirstCategory(a, message, roll) ==
    FallbackCategories[
        CHOOSE i \in DOMAIN FallbackCategories :
            /\ CategoryMatches(a, message, FallbackCategories[i], roll)
            /\ \A j \in 1..(i - 1) : ~CategoryMatches(a, message, FallbackCategories[j], roll)]

\* C30: on the generic fallback path the reply is one of the candidate
\* strings of the first category that matches in the order greeting,
\* goodbye, confusion (length < 3 or no letters), busy roll, personality pool.
C30_FallbackCategoryInOrder ==
    lastCall.op = "generateFallbackResponse" =>
        \E roll \in BOOLEAN :
            lastCall.reply \in
                CategoryCandidates(lastCall.agent,
                                   FirstCategory(lastCall.agent, lastCall.message, roll))

\* C30 witness: a message that greets and takes leave has been answered
\* with a greeting
C30_Witness ==
    /\ lastCall.op = "generateFallbackResponse"
    /\ IsGreeting(lastCall.message)
    /\ IsGoodbye(lastCall.message)
    /\ lastCall.reply \in FallbackPool(lastCall.agent, "greeting")
    /\ lastCall.reply \notin FallbackPool(lastCall.agent, "goodbye")

-----------------------------------------------------------------------------
(* SpecContext: one Response Engine, configured from the console, its
   conversation window, its tunables and the game's save and load *)

PriorWindowExchanges == 21
MaxWindowSteps == 3

WindowMessages == {"Hi", "tell me about gears"}

\* context.worldInfo: absent, or the object the personas supply
WorldInfos == {JSUndefined, JSObject}

\* `Current world context: ${JSON.stringify(context.worldInfo)}`, of the
\* object {location: 'Ancient Library'}
WorldContext == "Current world context: {\"location\":\"Ancient Library\"}"

\* Array.prototype.slice(-n) for n > 0
LastOf(array, n) ==
    SubSeq(array, Len(array) - (IF n < Len(array) THEN n ELSE Len(array)) + 1, Len(array))

\* recentHistory.forEach(entry => push user, push assistant)
RECURSIVE HistoryMessages(_)
HistoryMessages(entries) ==
    IF entries = <<>> THEN <<>>
    ELSE <<[role |-> "user", content |-> Head(entries).user],
           [role |-> "assistant", content |-> Head(entries).assistant]>>
         \o HistoryMessages(Tail(entries))

\* A mutant of BuildConversationContext: the whole history is sent
BuildConversationContextUnbounded(agent, currentMessage, worldInfo) ==
    <<[role |-> "system", content |-> agent.systemPrompt]>>
    \o (IF Truthy(worldInfo) THEN <<[role |-> "system", content |-> WorldContext]>> ELSE <<>>)
    \o HistoryMessages(agent.conversationHistory)
    \o <<[role |-> "user", content |-> currentMessage]>>

\* AIAgent.buildConversationContext
BuildConversationContext(agent, currentMessage, worldInfo) ==
    <<[role |-> "system", content |-> agent.systemPrompt]>>
    \o (IF Truthy(worldInfo) THEN <<[role |-> "system", content |-> WorldContext]>> ELSE <<>>)
    \o HistoryMessages(LastOf(agent.conversationHistory, 6))
    \o <<[role |-> "user", content |-> currentMessage]>>

\* AIAgent.addToConversationHistory
AddToConversationHistory(agent, userMessage, assistantResponse) ==
    LET pushed == Append(agent.conversationHistory,
                         [user |-> userMessage, assistant |-> assistantResponse])
    IN [agent EXCEPT !.conversationHistory =
                        IF Len(pushed) > 20 THEN Tail(pushed) ELSE pushed]

\* The engine after n exchanges answered by the external generator
RECURSIVE EarlierWindow(_, _)
EarlierWindow(a, n) ==
    IF n = 0 THEN NewAIAgent(a)
    ELSE AddToConversationHistory(EarlierWindow(a, n - 1),
                                  "message " \o NumberToString(n),
                                  "reply " \o NumberToString(n))

\* The console snippet configures the engines
ConfigureWindow ==
    /\ retrievals < MaxWindowSteps
    /\ \E cfg \in ConsoleConfigs :
        /\ apiEndpoint' = [a \in Agents |-> SetAPIConfigurationCall(cfg)[1]]
        /\ apiKey' = [a \in Agents |-> SetAPIConfigurationCall(cfg)[2]]
    /\ retrievals' = retrievals + 1
    /\ UNCHANGED <<aiConfig, aiAgent, chatVars, engineVars, personaVars, agentMemory,
                   roundTrip, memorySteps, saveVars>>

\* generateResponse(message, context) on the configured engine, the external
\* generator answering with a content: the context is built and sent, and the
\* exchange is pushed to the window
WindowExchange ==
    /\ retrievals < MaxWindowSteps
    /\ Configured("tiberius")
    /\ \E message \in WindowMessages, worldInfo \in WorldInfos, content \in AIContents :
         LET r == GenerateAIResponse([kind |-> "content", content |-> content])
         IN /\ ~r.thrown
            /\ aiAgent' = AddToConversationHistory(aiAgent, message, r.text)
            /\ lastCall' = [op |-> "buildConversationContext", agent |-> aiAgent,
                            message |-> message, worldInfo |-> worldInfo,
                            messages |-> BuildConversationContext(aiAgent, message, worldInfo)]
    /\ retrievals' = retrievals + 1
    /\ UNCHANGED <<apiEndpoint, apiKey, aiConfig, chatVars, engineVars, personaVars,
                   agentMemory, roundTrip, memorySteps, storage, storeError, lastCleanup>>

\* Calls of setResponseStyle(style, temperature = null, maxTokens = null);
\* temperature in tenths
StyleCalls == {<<"formal">>, <<"precise", 0>>, <<"lively", 12, 300>>}

\* AIAgent.setResponseStyle
SetResponseStyleCall(agent, arguments) ==
    [agent EXCEPT !.responseStyle = arguments[1],
                  !.temperature = IF Len(arguments) >= 2 THEN arguments[2] ELSE @,
                  !.maxTokens = IF Len(arguments) >= 3 THEN arguments[3] ELSE @]

SetResponseStyle ==
    /\ retrievals < MaxWindowSteps
    /\ \E arguments \in StyleCalls : aiAgent' = SetResponseStyleCall(aiAgent, arguments)
    /\ retrievals' = retrievals + 1
    /\ UNCHANGED <<apiEndpoint, apiKey, aiConfig, chatVars, engineVars, personaVars,
                   agentMemory, roundTrip, memorySteps, saveVars>>

\* GamePersistence.createSaveData: aiAgent.serialize() goes into the save
\* data. Its values are strings, numbers, arrays and plain objects, which
\* JSON text gives back as they were.
SaveWindow ==
    /\ retrievals < MaxWindowSteps
    /\ storage' = [t |-> "data", v |-> SerializeAIAgent(aiAgent)]
    /\ retrievals' = retrievals + 1
    /\ UNCHANGED <<configVars, chatVars, engineVars, personaVars, agentMemory, roundTrip,
                   memorySteps, storeError, lastCleanup, lastCall>>

\* GamePersistence.applySaveData: agent.aiAgent.deserialize(agentData.aiAgent)
LoadWindow ==
    /\ storage # NoSave
    /\ lastCall.op # "deserialize"
    /\ aiAgent' = DeserializeAIAgent(aiAgent, storage.v)
    /\ lastCall' = [op |-> "deserialize", saved |-> storage.v,
                    before |-> aiAgent,
                    after |-> DeserializeAIAgent(aiAgent, storage.v)]
    /\ UNCHANGED <<apiEndpoint, apiKey, aiConfig, chatVars, engineVars, personaVars,
                   agentMemory, roundTrip, memorySteps, retrievals, storage, storeError,
                   lastCleanup>>

NextContext ==
    \/ ConfigureWindow
    \/ WindowExchange
    \/ SetResponseStyle
    \/ SaveWindow
    \/ LoadWindow

InitSpecContext ==
    /\ InitEnvironment /\ InitEngine /\ InitChatIdle /\ InitPersonaIdle
    /\ \E a \in Agents, n \in 0..PriorWindowExchanges : aiAgent = EarlierWindow(a, n)
    /\ agentMemory = NewStore
    /\ roundTrip = NoRoundTrip
    /\ memorySteps = 0
    /\ retrievals = 0
    /\ storage = NoSave
    /\ storeError = FALSE
    /\ lastCleanup = NoCleanup
    /\ lastCall = NoOperation

SpecContext == InitSpecContext /\ [][NextContext]_vars

RoundTripOfEngine ==
    /\ lastCall.op = "deserialize"
    /\ lastCall.saved = SerializeAIAgent(lastCall.before)

\* C34: deserialize(serialize(engine)) preserves temperature (0 included),
\* maxTokens and responseStyle and preserves the conversation window, so
\* that the context built for the next message is the same before and after.
C34_EngineRoundTrip ==
    RoundTripOfEngine =>
        /\ lastCall.after.temperature = lastCall.before.temperature
        /\ lastCall.after.maxTokens = lastCall.before.maxTokens
        /\ lastCall.after.responseStyle = lastCall.before.responseStyle
        /\ \A message \in WindowMessages, worldInfo \in WorldInfos :
             BuildConversationContext(lastCall.after, message, worldInfo)
                = BuildConversationContext(lastCall.before, message, worldInfo)

\* C35: after the engine is deserialized from the saved game its system
\* prompt is still the prompt of the persona it was constructed for.
C35_PersonaPromptKept ==
    lastCall.op = "deserialize" =>
        \E a \in Agents :
            /\ AgentName(a) = lastCall.after.name
            /\ lastCall.after.systemPrompt = PersonaPrompt(a)

-----------------------------------------------------------------------------
(* SpecScripted: generateScriptedResponse of Tiberius and Elara called again
   and again in one session. receiveMessage reaches it only from its catch
   block; here it is called as a method of the persona. *)

MaxScriptedCalls == 3

ScriptedAgents == {"tiberius", "elara"}

ScriptedMessages ==
    {"Tell me the history of the town", "What books does the library hold?",
     "What about the missing chronicle?", "Any news?"}

\* persona.generateScriptedResponse(message, sender), with what the persona
\* has returned before
CallGenerateScriptedResponse ==
    /\ exchanges < MaxScriptedCalls
    /\ \E a \in ScriptedAgents, message \in ScriptedMessages :
         \E x \in GenerateScriptedResponse(persona["fallback"], a, message) :
            /\ persona' = [persona EXCEPT !["fallback"] = x.p]
            /\ lastCall' = [op |-> "generateScriptedResponse", agent |-> a,
                            message |-> message, reply |-> x.reply,
                            before |-> persona["fallback"], after |-> x.p,
                            earlier |-> IF lastCall.op = "generateScriptedResponse"
                                        THEN lastCall.earlier
                                               \cup {<<lastCall.agent, lastCall.reply>>}
                                        ELSE {}]
    /\ exchanges' = exchanges + 1
    /\ UNCHANGED <<configVars, chatVars, engineVars, exchange, consoleCalls, personaTrip,
                   agentMemory, roundTrip, memorySteps, retrievals, storage, storeError,
                   lastCleanup>>

NextScripted == CallGenerateScriptedResponse

InitSpecScripted ==
    InitConfig /\ InitEngine /\ InitChatIdle /\ InitPersona /\ InitStoreIdle

SpecScripted == InitSpecScripted /\ [][NextScripted]_vars

\* The topic-specific knowledge replies in full, by persona and topic
KnowledgeReply(a, topic) ==
    CASE a = "tiberius" /\ topic = "town_history" ->
            "Ah, the history of our town is fascinating indeed. "
               \o TiberiusKnowledge("town_history")
      [] a = "tiberius" /\ topic = "library_history" ->
            "This library holds many secrets. " \o TiberiusKnowledge("library_history")
      [] a = "tiberius" /\ topic = "missing_book" ->
            "Ah, so you've heard about Volume VII... " \o TiberiusKnowledge("missing_book")
               \o " Perhaps you could help me locate it?"
      [] a = "elara" -> "Oh, do I have news for you! " \o ElaraKnowledge(topic)

KnowledgeTopics(a) ==
    IF a = "tiberius" THEN {"town_history", "library_history", "missing_book"}
    ELSE {"local_gossip", "rival_marcus", "town_economics"}

\* The topics a persona has marked as shared
SharedTopics(p, a) == IF a = "tiberius" THEN p.knowledgeShared ELSE p.gossipShared

-----------------------------------------------------------------------------
(* SpecTiers: one AgentMemory of small capacity whose key may already be held
   in one tier or in both, then stored, read, forgotten, updated and cleaned *)

PriorReads == 4
MaxTierSteps == 2

TierData == {"seen at the library", "seen at the market"}

\* retrieve(key) called n times
RECURSIVE ReadTimes(_, _, _)
ReadTimes(s, key, n) ==
    IF n = 0 THEN s ELSE ReadTimes(RetrieveMemory(s, key), key, n - 1)

\* The store after store('met_player', 'seen at the library', NORMAL), then,
\* if both, store('met_player', 'seen at the market', HIGH), then the reads
EarlierStore(both, reads) ==
    LET first == CHOOSE s \in StoreMemory(NewStoreWith([maxMemories |-> QueryMaxMemories,
                                                        maxConversations |-> 0]),
                                          -2, "met_player", "seen at the library",
                                          ImportanceNormal, "fact", FALSE) : TRUE
        second == IF both
                  THEN CHOOSE s \in StoreMemory(first, -1, "met_player", "seen at the market",
                                                ImportanceHigh, "fact", FALSE) : TRUE
                  ELSE first
    IN ReadTimes(second, "met_player", reads)

\* memory.store(key, data, importance)
StoreInTiers ==
    /\ memorySteps < MaxTierSteps
    /\ \E key \in QueryKeys, data \in TierData,
          importance \in {ImportanceNormal, ImportanceHigh}, due \in BOOLEAN :
         \E after \in StoreMemory(agentMemory, 2 * memorySteps, key, data, importance,
                                  "fact", due) :
            /\ agentMemory' = after
            /\ lastCall' = [op |-> "store", key |-> key, data |-> data,
                            importance |-> importance, due |-> due,
                            before |-> agentMemory, after |-> after,
                            result |-> 2 * memorySteps]
    /\ memorySteps' = memorySteps + 1
    /\ UNCHANGED <<configVars, chatVars, engineVars, personaVars, roundTrip, retrievals,
                   storage, storeError, lastCleanup>>

\* memory.retrieve(key)
RetrieveFromTiers ==
    /\ memorySteps < MaxTierSteps
    /\ \E key \in QueryKeys :
         /\ agentMemory' = RetrieveMemory(agentMemory, key)
         /\ lastCall' = [op |-> "retrieve", key |-> key,
                         before |-> agentMemory,
                         after |-> RetrieveMemory(agentMemory, key),
                         result |-> RetrieveResult(agentMemory, key)]
    /\ memorySteps' = memorySteps + 1
    /\ UNCHANGED <<configVars, chatVars, engineVars, personaVars, roundTrip, retrievals,
                   storage, storeError, lastCleanup>>

\* memory.forget(key)
ForgetFromTiers ==
    /\ memorySteps < MaxTierSteps
    /\ \E key \in QueryKeys :
         /\ agentMemory' = ForgetMemory(agentMemory, key)
         /\ lastCall' = [op |-> "forget", key |-> key,
                         before |-> agentMemory,
                         after |-> ForgetMemory(agentMemory, key),
                         result |-> ForgetResult(agentMemory, key)]
    /\ memorySteps' = memorySteps + 1
    /\ UNCHANGED <<configVars, chatVars, engineVars, personaVars, roundTrip, retrievals,
                   storage, storeError, lastCleanup>>

\* The clock moves on and memory.update(deltaTime) runs
UpdateTiers ==
    /\ memorySteps < MaxTierSteps
    /\ \E deltaTime \in QueryDecayInputs, due \in BOOLEAN :
         \E after \in UpdateStore([agentMemory EXCEPT !.now = @ + deltaTime], deltaTime, due) :
            /\ agentMemory' = after
            /\ lastCall' = [op |-> "update", deltaTime |-> deltaTime, due |-> due,
                            before |-> agentMemory, after |-> after]
    /\ memorySteps' = memorySteps + 1
    /\ UNCHANGED <<configVars, chatVars, engineVars, personaVars, roundTrip, retrievals,
                   storage, storeError, lastCleanup>>

\* memory.cleanup()
CleanupTiers ==
    /\ memorySteps < MaxTierSteps
    /\ \E after \in Cleanup(agentMemory) :
         /\ agentMemory' = after
         /\ lastCall' = [op |-> "cleanup", before |-> agentMemory, after |-> after]
    /\ memorySteps' = memorySteps + 1
    /\ UNCHANGED <<configVars, chatVars, engineVars, personaVars, roundTrip, retrievals,
                   storage, storeError, lastCleanup>>

NextTiers ==
    \/ StoreInTiers
    \/ RetrieveFromTiers
    \/ ForgetFromTiers
    \/ UpdateTiers
    \/ CleanupTiers

InitSpecTiers ==
    /\ InitConfig /\ InitEngine /\ InitChatIdle /\ InitPersonaIdle
    /\ \E both \in BOOLEAN, reads \in 0..PriorReads :
         agentMemory = EarlierStore(both, reads)
    /\ roundTrip = NoRoundTrip
    /\ memorySteps = 0
    /\ retrievals = 0
    /\ storage = NoSave
    /\ storeError = FALSE
    /\ lastCleanup = NoCleanup
    /\ lastCall = NoOperation

SpecTiers == InitSpecTiers /\ [][NextTiers]_vars

\* The long-term records of the store before the last call are all still in
\* the long-term tier after it, as they were
LongTermKept ==
    \A key \in DOMAIN lastCall.before.longTermMemory.get :
        /\ MapHas(lastCall.after.longTermMemory, key)
        /\ lastCall.after.longTermMemory.get[key] = lastCall.before.longTermMemory.get[key]

\* C37: update() and cleanup() neither decay nor remove a record of the
\* long-term tier: every long-term record is there afterwards, unchanged
C37_LongTermUntouchedByMaintenance ==
    lastCall.op \in {"update", "cleanup"} => LongTermKept

\* C38: retrieve(key) immediately after store(key, data, importance) returns
\* the data just stored, for every prior state of the store, the key held in
\* the other tier and the short-term tier over capacity with a cleanup due
\* included
C38_RetrieveReturnsWhatWasStored ==
    [][(/\ lastCall.op = "store"
        /\ lastCall'.op = "retrieve"
        /\ lastCall'.key = lastCall.key) => lastCall'.result = JSData(lastCall.data)]_vars

-----------------------------------------------------------------------------
(* SpecConversations: the conversation log of one AgentMemory, appended to and
   queried with a limit *)

PriorConversations == 3
MaxConversationSteps == 2
MaxLimit == 2

Limits == 0..MaxLimit

\* The store after n calls of addConversation, of 'Player' and 'Stranger' in
\* turn
RECURSIVE EarlierLog(_)
EarlierLog(n) ==
    IF n = 0 THEN NewStore
    ELSE CHOOSE after \in AddConversationTo(EarlierLog(n - 1), 100 + 2 * n,
                                            IF n % 2 = 1 THEN "Player" ELSE "Stranger",
                                            "Can you help me with a problem?",
                                            "received", FALSE) : TRUE

\* memory.addConversation(participant, message, 'received')
AddToLog ==
    /\ memorySteps < MaxConversationSteps
    /\ \E name \in QueryNames, message \in StoreMessages :
         \E after \in AddConversationTo(agentMemory, 2 * memorySteps, name, message,
                                        "received", FALSE) :
            /\ agentMemory' = after
            /\ lastCall' = [op |-> "addConversation", name |-> name, limit |-> 0,
                            before |-> agentMemory, after |-> after, result |-> <<>>]
    /\ memorySteps' = memorySteps + 1
    /\ UNCHANGED <<configVars, chatVars, engineVars, personaVars, roundTrip, retrievals,
                   storage, storeError, lastCleanup>>

\* memory.getConversationsWith(participantName, limit)
QueryConversationsWith ==
    /\ memorySteps < MaxConversationSteps
    /\ \E name \in QueryNames, limit \in Limits :
         lastCall' = [op |-> "getConversationsWith", name |-> name, limit |-> limit,
                      before |-> agentMemory, after |-> agentMemory,
                      result |-> ConversationsWith(agentMemory, name, limit)]
    /\ memorySteps' = memorySteps + 1
    /\ UNCHANGED <<configVars, chatVars, engineVars, personaVars, agentMemory, roundTrip,
                   retrievals, storage, storeError, lastCleanup>>

\* memory.getRecentConversations(limit)
QueryRecentConversations ==
    /\ memorySteps < MaxConversationSteps
    /\ \E limit \in Limits :
         lastCall' = [op |-> "getRecentConversations", name |-> "", limit |-> limit,
                      before |-> agentMemory, after |-> agentMemory,
                      result |-> RecentConversations(agentMemory, limit)]
    /\ memorySteps' = memorySteps + 1
    /\ UNCHANGED <<configVars, chatVars, engineVars, personaVars, agentMemory, roundTrip,
                   retrievals, storage, storeError, lastCleanup>>

NextConversations ==
    \/ AddToLog
    \/ QueryConversationsWith
    \/ QueryRecentConversations

InitSpecConversations ==
    /\ InitConfig /\ InitEngine /\ InitChatIdle /\ InitPersonaIdle
    /\ \E n \in 0..PriorConversations : agentMemory = EarlierLog(n)
    /\ roundTrip = NoRoundTrip
    /\ memorySteps = 0
    /\ retrievals = 0
    /\ storage = NoSave
    /\ storeError = FALSE
    /\ lastCleanup = NoCleanup
    /\ lastCall = NoOperation

SpecConversations == InitSpecConversations /\ [][NextConversations]_vars

\* Where the log holds the entry
PositionInLog(log, entry) == CHOOSE i \in 1..Len(log) : log[i] = entry

\* The entries are entries of the log, each one later in the log than the
\* next, and the first is the newest of the candidates
NewestFirst(result, log, candidates) ==
    /\ \A i \in 1..Len(result) : \E j \in 1..Len(log) : log[j] = result[i]
    /\ \A i \in 1..Len(result) - 1 :
         PositionInLog(log, result[i]) > PositionInLog(log, result[i + 1])
    /\ Len(result) > 0 => result[1] = candidates[Len(candidates)]

\* C39: getConversationsWith(name, limit) and getRecentConversations(limit)
\* return at most limit entries, newest first, for every limit >= 0, 0
\* included, and getConversationsWith only entries of the named participant
C39_AtMostLimitNewestFirst ==
    /\ lastCall.op = "getConversationsWith" =>
         /\ Len(lastCall.result) <= lastCall.limit
         /\ \A i \in 1..Len(lastCall.result) : lastCall.result[i].participant = lastCall.name
         /\ NewestFirst(lastCall.result, lastCall.before.conversations,
                        SelectSeq(lastCall.before.conversations,
                                  LAMBDA conv : conv.participant = lastCall.name))
    /\ lastCall.op = "getRecentConversations" =>
         /\ Len(lastCall.result) <= lastCall.limit
         /\ NewestFirst(lastCall.result, lastCall.before.conversations,
                        lastCall.before.conversations)

====
